---- MODULE Spec2Model ----
(***************************************************************************)
(* Model of the bulk-export sinks of imposm3 (database/avro, database/gcs, *)
(* database/bigquery): one transaction of one sink instance.               *)
(*                                                                         *)
(* A transaction is opened by Begin/BeginBulk (newTxRouter creates one     *)
(* table worker per configured table and starts its background loop), the  *)
(* caller streams Insert/Delete calls through the TxRouter, and End/Abort  *)
(* fan out to every worker.  The caller is one goroutine (pc); every       *)
(* worker has one background goroutine (loopPc) fed by a buffered channel. *)
(***************************************************************************)
EXTENDS Naturals, Sequences, FiniteSets

\* ------------------------------------------------------------------ bounds
\* Rows the caller may insert beyond the channel capacity when one table is
\* configured (enough to fill the channel and block the caller).
ExtraRows == 1
\* Rows the caller may insert when two tables are configured.
MaxRows == 2
\* Calls of Generalize on one sink instance.
MaxGeneralize == 2
\* Elements inserted through InsertLineString in one transaction.
MaxUpdates == 2
\* Calls of Deploy, RevertDeploy and RemoveBackup on one sink instance.
MaxOps == 2
\* Fields of the table whose rows are encoded.
MaxFields == 2

\* --------------------------------------------------------------- constants
\* make(chan []interface{}, 64)
\* (fault variant: a channel one slot short)
QueueCapOff == 64 - 1
QueueCap == 64

TableNames == {"roads", "places"}
\* a table name that is in no mapping
UnknownTable == "nope"
Kinds == {"avro", "gcs", "bigquery"}
\* names of the generalized tables of the mapping (keys of
\* bq.GeneralizedTables)
GenNames == {"gen1", "gen2", "gen3"}
\* the nil *TableSpec / *GeneralizedTableSpec
None == "nil"
\* ids of the OSM elements the caller inserts (elem.ID)
ElemIDs == {7, 8}
\* Config.ImportSchema, Config.ProductionSchema, Config.BackupSchema
ImportSchema == "import"
ProductionSchema == "production"
BackupSchema == "backup"
DatasetNames == {ImportSchema, ProductionSchema, BackupSchema}
\* content of a table that does not exist
Absent == "absent"

\* --------------------------------------------------------------- errors
\* An error value is the chain of its messages, outermost first; the nil
\* error is the empty chain.
Nil == <<>>

\* errors.New(msg)
NewError(msg) == <<msg>>

\* errors.Wrap / errors.Wrapf of github.com/pkg/errors: wrapping nil is nil.
Wrap(err, msg) == IF err = Nil THEN Nil ELSE <<msg>> \o err

\* &BigQueryError{query, originalError}: a non-nil pointer whatever the
\* original error is.
BigQueryError(query, originalError) == <<"BigQuery Error", query>> \o originalError

VARIABLES
    kind,          \* which sink implementation this instance is
    Tables,        \* names of the configured tables (db.Tables)
    bulkImport,    \* the bulkImport argument of the last newTxRouter call
    txRouter,      \* the sink's txRouter field: "unset", "nil" or "set"
    txrTables,     \* keys of txr.Tables
    rows,          \* per worker: content of the rows channel
    chClosed,      \* per worker: rows channel closed
    loopPc,        \* per worker: background loop "none","recv","append","done"
    cur,           \* per worker: the row the loop has received (0: none)
    avroWriter,    \* per worker: OCF writer created by Begin
    appended,      \* per worker: records appended to the sink, in order
    inserted,      \* per worker: rows accepted by Insert, in order (history)
    writerClosed,  \* per worker: number of Close calls on the writer
    endRet,        \* per worker: return value of its last End
    steps,         \* per worker: the steps its End has run, with outcome
    target,        \* per table: warehouse target table "absent","old","new"
    temp,          \* per table: warehouse temp table "absent","loaded"
    tempExpires,   \* per table: expiration set on the temp table
    loadJob,       \* per table: load job "none","running","done","failed"
    queryJob,      \* per table: materialize job, same values
    pc,            \* position of the caller goroutine
    pending,       \* arguments of the router call in progress
    mode,          \* router fan-out in progress or last run: "End","Abort"
    remaining,     \* tables the running map iteration has not visited yet
    curT,          \* worker whose End is running
    endOrder,      \* workers whose End returned in the running fan-out
    outErr,        \* local variable outErr of TxRouter.End
    ret,           \* value the last call returned (op "none" while one runs)
    nextRow,       \* id of the next row the caller builds
    exited,        \* log.Fatalf has terminated the process
    panicked,      \* message of an unrecovered panic ("" : none)
    SourceName,    \* per generalized table: configured source table name
    Source,        \* per generalized table: resolved base table, or None
    SourceGeneralized, \* per generalized table: direct generalized source, or None
    created,       \* per generalized table: created flag
    Generalizations,   \* per base or generalized table: its back-link list
    gpc,           \* position in New / Generalize ("off": not modelled)
    gremaining,    \* tables the running map iteration has not visited yet
    filled,        \* loop variable of the second resolution pass
    progress,      \* the running round of the second pass has set a Source
    builds,        \* build queries of the running / last Generalize call
    passNo,        \* number of Generalize calls so far
    gret,          \* value New or the last Generalize returned
    updateGeneralizedTables, \* the sink's updateGeneralizedTables flag
    updatedIDs,    \* per generalized table: changed ids tracked ("nil" map: all empty)
    updateLog,     \* router inserts of the last GeneralizeUpdates, with result
    datasets,      \* warehouse: names of the datasets that exist
    content,       \* warehouse: per dataset and table name, its content or Absent
    rot,           \* the running / last operation on datasets and its arguments
    rpc,           \* position in rotate / RemoveBackup ("off": not modelled)
    rremaining,    \* table names the running loop has not visited yet
    rcur,          \* table name the running loop is at
    jobs,          \* warehouse requests made for the table the loop is at, in order
    rret,          \* value the last operation returned
    ops,           \* number of Deploy / RevertDeploy / RemoveBackup calls so far
    deployed,      \* history: content of production when Deploy was last called
    erow,          \* encoder: the row the loop has received, as <<field type, cell>>
    encodedValue,  \* encoder: wire values of the cells encoded so far
    edone,         \* encoder: the record of the row has been appended
    calls,         \* per calling goroutine: the sink insert it is running
    updateIDsMu,   \* holder of the mutex updateIDsMu, or None
    callLog        \* history: the sink inserts that have returned

workerVars == <<rows, chClosed, loopPc, cur, avroWriter, appended, inserted,
                writerClosed, endRet, steps>>
remoteVars == <<target, temp, tempExpires, loadJob, queryJob>>
routerVars == <<bulkImport, txRouter, txrTables>>
callerVars == <<pc, pending, mode, remaining, curT, endOrder, outErr, ret, nextRow>>
txVars == <<kind, Tables, routerVars, workerVars, remoteVars, callerVars,
           exited, panicked>>
genVars == <<SourceName, Source, SourceGeneralized, created, Generalizations,
             gpc, gremaining, filled, progress, builds, passNo, gret>>
updVars == <<updateGeneralizedTables, updatedIDs, updateLog>>
rotVars == <<datasets, content, rot, rpc, rremaining, rcur, jobs, rret, ops,
             deployed>>
encVars == <<erow, encodedValue, edone>>
insVars == <<calls, updateIDsMu, callLog>>
opsVars == <<updVars, rotVars, encVars, insVars>>
vars == <<txVars, genVars, opsVars>>

\* The process is alive: no log.Fatalf (os.Exit) and no unrecovered panic has
\* ended it.
\* (fault variant: a failed append is logged but does not end the process)
RunningAfterFatal == panicked = ""
Running == ~exited /\ panicked = ""

\* no router call in progress
NoCall == [table |-> UnknownTable, row |-> 0]
\* no call has returned
NoRet == [op |-> "none", err |-> Nil]

\* rows the caller may still insert
RowBudget == IF Cardinality(Tables) = 1 THEN QueueCap + ExtraRows ELSE MaxRows

TxInit ==
    /\ kind \in Kinds
    /\ Tables \in {{"roads"}, {"roads", "places"}}
    /\ bulkImport = FALSE
    /\ txRouter = "unset"
    /\ txrTables = {}
    /\ rows = [t \in TableNames |-> <<>>]
    /\ chClosed = [t \in TableNames |-> FALSE]
    /\ loopPc = [t \in TableNames |-> "none"]
    /\ cur = [t \in TableNames |-> 0]
    /\ avroWriter = [t \in TableNames |-> FALSE]
    /\ appended = [t \in TableNames |-> <<>>]
    /\ inserted = [t \in TableNames |-> <<>>]
    /\ writerClosed = [t \in TableNames |-> 0]
    /\ endRet = [t \in TableNames |-> Nil]
    /\ steps = [t \in TableNames |-> <<>>]
    /\ target \in [TableNames -> {"absent", "old"}]
    /\ \A t \in TableNames : (kind # "bigquery" \/ t \notin Tables) => target[t] = "absent"
    /\ temp = [t \in TableNames |-> "absent"]
    /\ tempExpires = [t \in TableNames |-> FALSE]
    /\ loadJob = [t \in TableNames |-> "none"]
    /\ queryJob = [t \in TableNames |-> "none"]
    /\ pc = "init"
    /\ pending = NoCall
    /\ mode = "none"
    /\ remaining = {}
    /\ curT = UnknownTable
    /\ endOrder = <<>>
    /\ outErr = Nil
    /\ ret = NoRet
    /\ nextRow = 1
    /\ exited = FALSE
    /\ panicked = ""

\* EnableGeneralizeUpdates has not been called: the flag is false and the
\* updatedIDs map is nil (reads as empty for every key)
NoUpdates ==
    /\ updateGeneralizedTables = FALSE
    /\ updatedIDs = [g \in GenNames |-> <<>>]
    /\ updateLog = <<>>

\* the goroutines that call the sink's inserts concurrently, named by the
\* insert they call
Callers == {"InsertLineString", "InsertPolygon"}

\* a goroutine that is not inside an insert
NoInsert == [pc |-> "idle", n |-> 0, id |-> 0, matches |-> <<>>, i |-> 0,
             genMatches |-> <<>>, g |-> 0, tmp |-> <<>>]

\* no goroutine is inside an insert and the mutex is unlocked
NoCalls ==
    /\ calls = [c \in Callers |-> NoInsert]
    /\ updateIDsMu = None
    /\ callLog = {}

\* no row is being encoded
NoRow ==
    /\ erow = <<>>
    /\ encodedValue = <<>>
    /\ edone = FALSE

\* no Deploy, RevertDeploy or RemoveBackup has been called
NoRotation ==
    /\ rot = [op |-> "none", prev |-> "none", source |-> "", dest |-> "", backup |-> ""]
    /\ deployed = [n \in TableNames \cup GenNames |-> Absent]
    /\ rremaining = {}
    /\ rcur = UnknownTable
    /\ jobs = <<>>
    /\ rret = NoRet
    /\ ops = 0

\* the warehouse as the transaction and generalization models see it: the
\* datasets exist and their tables are not looked at
WarehouseOff ==
    /\ datasets = DatasetNames
    /\ content = [d \in DatasetNames |-> [n \in TableNames \cup GenNames |-> Absent]]
    /\ rpc = "off"

\* the generalized table specs as NewGeneralizedTableSpec builds them from
\* the configured source names
NewGeneralizedTableSpecs(names) ==
    /\ SourceName = names
    /\ Source = [g \in GenNames |-> None]
    /\ SourceGeneralized = [g \in GenNames |-> None]
    /\ created = [g \in GenNames |-> FALSE]
    /\ Generalizations = [t \in TableNames \cup GenNames |-> <<>>]
    /\ gremaining = GenNames
    /\ filled = TRUE
    /\ progress = FALSE
    /\ builds = <<>>
    /\ passNo = 0
    /\ gret = NoRet

\* a sink whose mapping has no generalized table, about to open a transaction
Init ==
    /\ TxInit
    /\ NewGeneralizedTableSpecs([g \in GenNames |-> UnknownTable])
    /\ gpc = "off"
    /\ NoUpdates /\ NoRotation /\ WarehouseOff /\ NoRow /\ NoCalls

\* New of the bigquery sink, after the table specs are built and before
\* prepareGeneralizedTableSources: every generalized table names a base
\* table, a generalized table or a table that does not exist.
InitNew ==
    /\ TxInit
    /\ kind = "bigquery" /\ Tables = TableNames
    /\ target = [t \in TableNames |-> "absent"]
    /\ \E names \in [GenNames -> TableNames \cup GenNames \cup {UnknownTable}] :
          NewGeneralizedTableSpecs(names)
    /\ gpc = "pass1"
    /\ NoUpdates /\ NoRotation /\ WarehouseOff /\ NoRow /\ NoCalls

\* ------------------------------------------------- Begin / BeginBulk
\* BigQuery.Begin / BeginBulk (and the avro and gcs twins): call
\* newTxRouter(db, bulkImport).
CallBegin(bulk) ==
    /\ Running /\ pc = "init"
    /\ pc' = "newTxRouter"
    /\ bulkImport' = bulk
    /\ txrTables' = {}
    /\ remaining' = Tables
    /\ UNCHANGED <<genVars, opsVars, kind, Tables, txRouter, workerVars, remoteVars, pending, mode,
                   curT, endOrder, outErr, ret, nextRow, exited, panicked>>

\* (fault variant: the error of a worker's Begin is ignored and the worker is
\* registered all the same)
NewTxRouterIterGoesOn(t, outcome) ==
    /\ Running /\ pc = "newTxRouter" /\ t \in remaining
    /\ outcome = "openFail" => kind = "avro"
    /\ IF outcome = "openFail"
       THEN /\ txRouter' = "nil"
            /\ ret' = [op |-> "Begin", err |-> Wrap(NewError("open"), "opening file")]
            /\ pc' = "idle"
            /\ UNCHANGED <<loopPc, avroWriter, txrTables, remaining>>
       ELSE /\ loopPc' = [loopPc EXCEPT ![t] = "recv"]
            /\ avroWriter' = [avroWriter EXCEPT ![t] = (outcome = "ok")]
            /\ txrTables' = txrTables \cup {t}
            /\ remaining' = remaining \ {t}
            /\ UNCHANGED <<txRouter, ret, pc>>
    /\ UNCHANGED <<genVars, opsVars, kind, Tables, bulkImport, rows, chClosed, cur, appended, inserted,
                   writerClosed, endRet, steps, remoteVars, pending, mode, curT,
                   endOrder, outErr, nextRow, exited, panicked>>

\* One iteration of the loop of newTxRouter over db.Tables: (avro only: open
\* the file,) create the worker, which starts its background loop, and call
\* its Begin.  The first failure returns (nil, err) and the caller stores the
\* nil router.
NewTxRouterIter(t, outcome) ==
    /\ Running /\ pc = "newTxRouter" /\ t \in remaining
    /\ outcome = "openFail" => kind = "avro"
    /\ IF outcome = "openFail"
       THEN /\ txRouter' = "nil"
            /\ ret' = [op |-> "Begin", err |-> Wrap(NewError("open"), "opening file")]
            /\ pc' = "idle"
            /\ UNCHANGED <<loopPc, avroWriter, txrTables, remaining>>
       ELSE /\ loopPc' = [loopPc EXCEPT ![t] = "recv"]
            /\ IF outcome = "beginFail"
               THEN /\ txRouter' = "nil"
                    /\ ret' = [op |-> "Begin",
                               err |-> Wrap(NewError("ocf"), "creating Avro writer")]
                    /\ pc' = "idle"
                    /\ UNCHANGED <<avroWriter, txrTables, remaining>>
               ELSE /\ avroWriter' = [avroWriter EXCEPT ![t] = TRUE]
                    /\ txrTables' = txrTables \cup {t}
                    /\ remaining' = remaining \ {t}
                    /\ UNCHANGED <<txRouter, ret, pc>>
    /\ UNCHANGED <<genVars, opsVars, kind, Tables, bulkImport, rows, chClosed, cur, appended, inserted,
                   writerClosed, endRet, steps, remoteVars, pending, mode, curT,
                   endOrder, outErr, nextRow, exited, panicked>>

\* newTxRouter returns (&txr, nil) once every table has a worker.
NewTxRouterReturn ==
    /\ Running /\ pc = "newTxRouter" /\ remaining = {}
    /\ txRouter' = "set"
    /\ ret' = [op |-> "Begin", err |-> Nil]
    /\ pc' = "idle"
    /\ UNCHANGED <<genVars, opsVars, kind, Tables, bulkImport, txrTables, workerVars, remoteVars,
                   pending, mode, remaining, curT, endOrder, outErr, nextRow,
                   exited, panicked>>

\* ------------------------------------------------- Insert / Delete
\* The caller invokes txRouter.Insert(table, row) (through InsertPoint,
\* InsertLineString, ...) with the next row it has built.
CallInsert(t) ==
    /\ Running /\ pc = "idle"
    /\ nextRow <= RowBudget
    /\ pc' = "Insert"
    /\ pending' = [table |-> t, row |-> nextRow]
    /\ ret' = NoRet
    /\ UNCHANGED <<genVars, opsVars, kind, Tables, routerVars, workerVars, remoteVars, mode, remaining,
                   curT, endOrder, outErr, nextRow, exited, panicked>>

\* errors.New("Insert into unknown table " + table) and its Delete twin
\* (fault variant: a lookup miss is silently dropped)
UnknownTableIgnored(what) == Nil
UnknownTableError(what) == NewError(what \o " unknown table")

\* tt.rows <- row has put the row into the channel and Insert returns nil.
Enqueued(t, row) ==
    /\ inserted' = [inserted EXCEPT ![t] = Append(@, row)]
    /\ nextRow' = nextRow + 1
    /\ ret' = [op |-> "Insert", err |-> Nil]
    /\ pending' = NoCall
    /\ pc' = "idle"

\* TxRouter.Insert: look the worker up by name; tableImport.Insert sends the
\* row on the buffered channel: the send completes while the buffer has room,
\* parks the caller while it is full, and panics on a closed channel.
RouterInsert ==
    /\ Running /\ pc = "Insert"
    /\ IF txRouter # "set"
       THEN /\ panicked' = "nil pointer dereference"
            /\ UNCHANGED <<rows, inserted, nextRow, ret, pc, pending>>
       ELSE IF pending.table \notin txrTables
       THEN /\ ret' = [op |-> "Insert",
                       err |-> UnknownTableError("Insert into")]
            /\ pc' = "idle"
            /\ pending' = NoCall
            /\ UNCHANGED <<rows, inserted, nextRow, panicked>>
       ELSE IF chClosed[pending.table]
       THEN /\ panicked' = "send on closed channel"
            /\ UNCHANGED <<rows, inserted, nextRow, ret, pc, pending>>
       ELSE IF Len(rows[pending.table]) < QueueCap
       THEN /\ rows' = [rows EXCEPT ![pending.table] = Append(@, pending.row)]
            /\ Enqueued(pending.table, pending.row)
            /\ UNCHANGED panicked
       ELSE /\ pc' = "blocked"
            /\ UNCHANGED <<rows, inserted, nextRow, ret, panicked, pending>>
    /\ UNCHANGED <<genVars, opsVars, kind, Tables, routerVars, chClosed, loopPc, cur, avroWriter,
                   appended, writerClosed, endRet, steps, remoteVars, mode,
                   remaining, curT, endOrder, outErr, exited>>

\* The caller invokes txRouter.Delete(table, id) (BigQuery.Delete).
CallDelete(t) ==
    /\ Running /\ pc = "idle"
    /\ pc' = "Delete"
    /\ pending' = [table |-> t, row |-> 1]
    /\ ret' = NoRet
    /\ UNCHANGED <<genVars, opsVars, kind, Tables, routerVars, workerVars, remoteVars, mode, remaining,
                   curT, endOrder, outErr, nextRow, exited, panicked>>

\* AvroDB.Delete / GCS.Delete: the Delete of the file and object-store sinks
\* returns nil at once, whatever the transaction and the matches are; it
\* does not call the router.
SinkDelete(t) ==
    /\ Running /\ pc = "idle"
    /\ kind # "bigquery"
    /\ ret' = [op |-> "SinkDelete", err |-> Nil]
    /\ UNCHANGED <<genVars, opsVars, kind, Tables, routerVars, workerVars, remoteVars,
                   pc, pending, mode, remaining, curT, endOrder, outErr, nextRow,
                   exited, panicked>>

\* (fault variant: Delete is a silent no-op)
DeleteReturnsNil(t) ==
    /\ ret' = [op |-> "Delete", err |-> Nil]
    /\ pc' = "idle"
    /\ pending' = NoCall
    /\ UNCHANGED panicked
\* tableImport.Delete / AvroTable.Delete / GCSAvroImport.Delete
WorkerDelete(t) ==
    /\ panicked' = "unable to delete in bulkImport mode"
    /\ UNCHANGED <<ret, pc, pending>>

\* TxRouter.Delete: look the worker up by name and call its Delete.
RouterDelete ==
    /\ Running /\ pc = "Delete"
    /\ IF txRouter # "set"
       THEN /\ panicked' = "nil pointer dereference"
            /\ UNCHANGED <<ret, pc, pending>>
       ELSE IF pending.table \notin txrTables
       THEN /\ ret' = [op |-> "Delete",
                       err |-> UnknownTableError("Delete from")]
            /\ pc' = "idle"
            /\ pending' = NoCall
            /\ UNCHANGED panicked
       ELSE WorkerDelete(pending.table)
    /\ UNCHANGED <<genVars, opsVars, kind, Tables, routerVars, workerVars, remoteVars, mode,
                   remaining, curT, endOrder, outErr, nextRow, exited>>

\* ------------------------------------------------- background loop
\* (fault variant: the receive does not resume a sender parked on the full
\* channel)
LoopRecvNoWake(t) ==
    /\ Running /\ loopPc[t] = "recv" /\ rows[t] # <<>>
    /\ cur' = [cur EXCEPT ![t] = Head(rows[t])]
    /\ loopPc' = [loopPc EXCEPT ![t] = "append"]
    /\ rows' = [rows EXCEPT ![t] = Tail(@)]
    /\ UNCHANGED <<inserted, nextRow, ret, pc, pending>>
    /\ UNCHANGED <<genVars, opsVars, kind, Tables, routerVars, chClosed, avroWriter, appended,
                   writerClosed, endRet, steps, remoteVars, mode, remaining,
                   curT, endOrder, outErr, exited, panicked>>

\* for row := range tt.rows: receive the oldest row.  A sender parked on the
\* full channel is resumed by the receive: its row takes the freed slot.
LoopRecv(t) ==
    /\ Running /\ loopPc[t] = "recv" /\ rows[t] # <<>>
    /\ cur' = [cur EXCEPT ![t] = Head(rows[t])]
    /\ loopPc' = [loopPc EXCEPT ![t] = "append"]
    /\ IF pc = "blocked" /\ pending.table = t
       THEN /\ rows' = [rows EXCEPT ![t] = Append(Tail(@), pending.row)]
            /\ Enqueued(t, pending.row)
       ELSE /\ rows' = [rows EXCEPT ![t] = Tail(@)]
            /\ UNCHANGED <<inserted, nextRow, ret, pc, pending>>
    /\ UNCHANGED <<genVars, opsVars, kind, Tables, routerVars, chClosed, avroWriter, appended,
                   writerClosed, endRet, steps, remoteVars, mode, remaining,
                   curT, endOrder, outErr, exited, panicked>>

\* Encode the received row and Append it to the OCF writer, one record per
\* row; a failing Append is log.Fatalf, which ends the process.
LoopAppend(t, ok) ==
    /\ Running /\ loopPc[t] = "append"
    /\ IF ~avroWriter[t]
       THEN /\ panicked' = "nil pointer dereference"
            /\ UNCHANGED <<appended, loopPc, cur, exited>>
       ELSE IF ok
       THEN /\ appended' = [appended EXCEPT ![t] = Append(@, cur[t])]
            /\ loopPc' = [loopPc EXCEPT ![t] = "recv"]
            /\ cur' = [cur EXCEPT ![t] = 0]
            /\ UNCHANGED <<exited, panicked>>
       ELSE /\ exited' = TRUE
            /\ UNCHANGED <<appended, loopPc, cur, panicked>>
    /\ UNCHANGED <<genVars, opsVars, kind, Tables, routerVars, rows, chClosed, avroWriter, inserted,
                   writerClosed, endRet, steps, remoteVars, callerVars>>

\* The range loop ends when the channel is closed and drained; wg.Done().
LoopExit(t) ==
    /\ Running /\ loopPc[t] = "recv" /\ rows[t] = <<>> /\ chClosed[t]
    /\ loopPc' = [loopPc EXCEPT ![t] = "done"]
    /\ UNCHANGED <<genVars, opsVars, kind, Tables, routerVars, rows, chClosed, cur, avroWriter,
                   appended, inserted, writerClosed, endRet, steps, remoteVars,
                   callerVars, exited, panicked>>

\* ------------------------------------------------- End / Abort
\* The caller invokes the sink's End or Abort, which call txRouter.End() or
\* txRouter.Abort(); both range over txr.Tables.
CallEnd(m) ==
    /\ Running /\ pc = "idle"
    /\ ret' = NoRet
    /\ IF txRouter # "set"
       THEN /\ panicked' = "nil pointer dereference"
            /\ UNCHANGED <<pc, mode, remaining, endOrder, outErr>>
       ELSE /\ pc' = "router"
            /\ mode' = m
            /\ remaining' = txrTables
            /\ endOrder' = <<>>
            /\ outErr' = Nil
            /\ UNCHANGED panicked
    /\ UNCHANGED <<genVars, opsVars, kind, Tables, routerVars, workerVars, remoteVars, pending, curT,
                   nextRow, exited>>

\* The map iteration of TxRouter.End / TxRouter.Abort picks the next worker,
\* in any order, and calls its End (Abort calls tt.End() as well).
RouterIter(t) ==
    /\ Running /\ pc = "router" /\ t \in remaining
    /\ pc' = "close"
    /\ curT' = t
    /\ UNCHANGED <<genVars, opsVars, kind, Tables, routerVars, workerVars, remoteVars, pending, mode,
                   remaining, endOrder, outErr, ret, nextRow, exited, panicked>>

\* What TxRouter.End keeps of the value a worker End returned: the avro and
\* gcs routers remember the last non-nil error in outErr, the bigquery router
\* and every Abort discard it.
KeepOutErr(err) ==
    IF mode = "End" /\ kind # "bigquery" /\ err # Nil THEN err ELSE outErr

\* (fault variant: the router loop returns at the first worker error)
StopAtFirstError(err) ==
    /\ endRet' = [endRet EXCEPT ![curT] = err]
    /\ endOrder' = Append(endOrder, curT)
    /\ remaining' = IF err # Nil THEN {} ELSE remaining \ {curT}
    /\ outErr' = KeepOutErr(err)
    /\ pc' = "router"
\* The worker End running for curT returns err to the router loop.
WorkerEndReturn(err) ==
    /\ endRet' = [endRet EXCEPT ![curT] = err]
    /\ endOrder' = Append(endOrder, curT)
    /\ remaining' = remaining \ {curT}
    /\ outErr' = KeepOutErr(err)
    /\ pc' = "router"

\* The worker End goes on with its next statement.
WorkerEndGoto(label) ==
    /\ pc' = label
    /\ UNCHANGED <<endRet, endOrder, remaining, outErr>>

\* record a step of the End of curT
Log(name, outcome) == steps' = [steps EXCEPT ![curT] = Append(@, <<name, outcome>>)]

\* TxRouter.End / TxRouter.Abort return after the iteration: the avro and gcs
\* End return outErr, the bigquery End and every Abort return nil.
RouterReturn ==
    /\ Running /\ pc = "router" /\ remaining = {}
    /\ ret' = [op |-> mode,
               err |-> IF mode = "End" /\ kind # "bigquery" THEN outErr ELSE Nil]
    /\ pc' = "idle"
    /\ UNCHANGED <<genVars, opsVars, kind, Tables, routerVars, workerVars, remoteVars, pending, mode,
                   remaining, curT, endOrder, outErr, nextRow, exited, panicked>>

\* worker End: close(tt.rows); closing a closed channel panics.
EndClose ==
    /\ Running /\ pc = "close"
    /\ IF chClosed[curT]
       THEN /\ panicked' = "close of closed channel"
            /\ UNCHANGED <<chClosed, pc>>
       ELSE /\ chClosed' = [chClosed EXCEPT ![curT] = TRUE]
            /\ pc' = "wait"
            /\ UNCHANGED panicked
    /\ UNCHANGED <<genVars, opsVars, kind, Tables, routerVars, rows, loopPc, cur, avroWriter, appended,
                   inserted, writerClosed, endRet, steps, remoteVars, pending, mode,
                   remaining, curT, endOrder, outErr, ret, nextRow, exited>>

\* (fault variant: End does not wait for the background loop)
EndNoWait ==
    /\ Running /\ pc = "wait"
    /\ pc' = "closeWriter"
    /\ UNCHANGED <<genVars, opsVars, kind, Tables, routerVars, workerVars, remoteVars, pending, mode,
                   remaining, curT, endOrder, outErr, ret, nextRow, exited, panicked>>
\* worker End: tt.wg.Wait() returns once the background loop has called
\* wg.Done().
EndWait ==
    /\ Running /\ pc = "wait"
    /\ loopPc[curT] = "done"
    /\ pc' = "closeWriter"
    /\ UNCHANGED <<genVars, opsVars, kind, Tables, routerVars, workerVars, remoteVars, pending, mode,
                   remaining, curT, endOrder, outErr, ret, nextRow, exited, panicked>>

\* worker End: close the file / object writer.  The avro and gcs workers
\* return here; the bigquery worker goes on with the bulk-load sequence.
EndCloseWriter(ok) ==
    /\ Running /\ pc = "closeWriter"
    /\ writerClosed' = [writerClosed EXCEPT ![curT] = @ + 1]
    /\ Log("closeWriter", IF ok THEN "ok" ELSE "err")
    /\ IF ~ok
       THEN WorkerEndReturn(Wrap(NewError("close " \o curT), "closing object writer"))
       ELSE IF kind = "bigquery"
       THEN WorkerEndGoto("loadRun")
       ELSE WorkerEndReturn(Nil)
    /\ UNCHANGED <<genVars, opsVars, kind, Tables, routerVars, rows, chClosed, loopPc, cur, avroWriter,
                   appended, inserted, remoteVars, pending, mode, curT, ret,
                   nextRow, exited, panicked>>

\* ------------------------------------------------- bulk-load sequence
\* (tableImport.End of the bigquery worker, after the staged writer is closed)

\* loader.Run: start the load job from the staged object into the temp table.
LoadRun(ok) ==
    /\ Running /\ pc = "loadRun"
    /\ Log("loadRun", IF ok THEN "ok" ELSE "err")
    /\ IF ok
       THEN /\ loadJob' = [loadJob EXCEPT ![curT] = "running"]
            /\ WorkerEndGoto("loadWait")
       ELSE /\ UNCHANGED loadJob
            /\ WorkerEndReturn(Wrap(NewError("run " \o curT), "starting BigQuery import"))
    /\ UNCHANGED <<genVars, opsVars, kind, Tables, routerVars, rows, chClosed, loopPc, cur, avroWriter,
                   appended, inserted, writerClosed, target, temp, tempExpires,
                   queryJob, pending, mode, curT, ret, nextRow, exited, panicked>>

\* What End returns when the awaited load job reports an error in its
\* status: errors.Wrap(err, "BigQuery import failed"), where err is the
\* (nil) error of job.Wait.
LoadFailed(waitErr, statusErr) == Wrap(waitErr, "BigQuery import failed")

\* (fault variant: the status of the load job is not looked at)
LoadWaitIgnoresStatus(outcome) ==
    /\ Running /\ pc = "loadWait"
    /\ Log("loadWait", outcome)
    /\ IF outcome = "waitErr"
       THEN /\ UNCHANGED <<loadJob, temp>>
            /\ WorkerEndReturn(Wrap(NewError("wait " \o curT),
                                    "waiting for BigQuery import to finish"))
       ELSE /\ loadJob' = [loadJob EXCEPT ![curT] = IF outcome = "ok" THEN "done" ELSE "failed"]
            /\ temp' = [temp EXCEPT ![curT] = IF outcome = "ok" THEN "loaded" ELSE @]
            /\ WorkerEndGoto("setExpiration")
    /\ UNCHANGED <<genVars, opsVars, kind, Tables, routerVars, rows, chClosed, loopPc, cur, avroWriter,
                   appended, inserted, writerClosed, target, tempExpires, queryJob,
                   pending, mode, curT, ret, nextRow, exited, panicked>>

\* job.Wait on the load job, then status.Err().  The job creates the temp
\* table if needed and truncates it (CreateIfNeeded, WriteTruncate).
LoadWait(outcome) ==
    /\ Running /\ pc = "loadWait"
    /\ Log("loadWait", outcome)
    /\ CASE outcome = "waitErr" ->
              /\ UNCHANGED <<loadJob, temp>>
              /\ WorkerEndReturn(Wrap(NewError("wait " \o curT),
                                      "waiting for BigQuery import to finish"))
         [] outcome = "statusErr" ->
              /\ loadJob' = [loadJob EXCEPT ![curT] = "failed"]
              /\ UNCHANGED temp
              /\ WorkerEndReturn(LoadFailed(Nil, NewError("status " \o curT)))
         [] outcome = "ok" ->
              /\ loadJob' = [loadJob EXCEPT ![curT] = "done"]
              /\ temp' = [temp EXCEPT ![curT] = "loaded"]
              /\ WorkerEndGoto("setExpiration")
    /\ UNCHANGED <<genVars, opsVars, kind, Tables, routerVars, rows, chClosed, loopPc, cur, avroWriter,
                   appended, inserted, writerClosed, target, tempExpires, queryJob,
                   pending, mode, curT, ret, nextRow, exited, panicked>>

\* tempTable.Update: set the expiration of the temp table.
SetExpiration(ok) ==
    /\ Running /\ pc = "setExpiration"
    /\ Log("setExpiration", IF ok THEN "ok" ELSE "err")
    /\ IF ok
       THEN /\ tempExpires' = [tempExpires EXCEPT ![curT] = TRUE]
            /\ WorkerEndGoto("deleteTarget")
       ELSE /\ UNCHANGED tempExpires
            /\ WorkerEndReturn(Wrap(NewError("update " \o curT),
                                    "creating temporary BigQuery table"))
    /\ UNCHANGED <<genVars, opsVars, kind, Tables, routerVars, rows, chClosed, loopPc, cur, avroWriter,
                   appended, inserted, writerClosed, target, temp, loadJob, queryJob,
                   pending, mode, curT, ret, nextRow, exited, panicked>>

\* table.Delete of the warehouse client: deleting a table that does not
\* exist answers "Not found", deleting an existing one succeeds or fails
\* with some other error.
NotFound == NewError("Not found")
TableDelete(exists, ok) ==
    IF ~exists THEN NotFound
    ELSE IF ok THEN Nil
    ELSE NewError("delete")

\* BigQuery.deleteTable: an error of table.Delete containing "Not found"
\* counts as success, any other error is wrapped and returned.
\* (fault variant: every error of table.Delete is swallowed)
DeleteTableSwallows(apiErr) == Nil
DeleteTableResult(apiErr) ==
    IF apiErr # Nil /\ apiErr # NotFound
    THEN Wrap(apiErr, "deleting table")
    ELSE Nil

\* tt.Bq.deleteTable(tt.Table): drop the target table before materializing.
DeleteTarget(ok) ==
    /\ Running /\ pc = "deleteTarget"
    /\ LET apiErr == TableDelete(target[curT] # "absent", ok)
           err == DeleteTableResult(apiErr) IN
       /\ Log("deleteTarget", IF err = Nil THEN "ok" ELSE "err")
       /\ target' = IF apiErr = Nil THEN [target EXCEPT ![curT] = "absent"] ELSE target
       /\ IF err = Nil
          THEN WorkerEndGoto("queryRun")
          ELSE WorkerEndReturn(Wrap(err, "deleting BigQuery table"))
    /\ UNCHANGED <<genVars, opsVars, kind, Tables, routerVars, rows, chClosed, loopPc, cur, avroWriter,
                   appended, inserted, writerClosed, temp, tempExpires, loadJob,
                   queryJob, pending, mode, curT, ret, nextRow, exited, panicked>>

\* the CREATE OR REPLACE TABLE ... AS SELECT statement of End
CopyQuery(t) == "CREATE OR REPLACE TABLE " \o t

\* query.Run: start the materialize query.
QueryRun(ok) ==
    /\ Running /\ pc = "queryRun"
    /\ Log("queryRun", IF ok THEN "ok" ELSE "err")
    /\ IF ok
       THEN /\ queryJob' = [queryJob EXCEPT ![curT] = "running"]
            /\ WorkerEndGoto("queryWait")
       ELSE /\ UNCHANGED queryJob
            /\ WorkerEndReturn(Wrap(NewError("run " \o curT),
                                    "copying data to target BigQuery table"))
    /\ UNCHANGED <<genVars, opsVars, kind, Tables, routerVars, rows, chClosed, loopPc, cur, avroWriter,
                   appended, inserted, writerClosed, target, temp, tempExpires,
                   loadJob, pending, mode, curT, ret, nextRow, exited, panicked>>

\* job.Wait on the materialize query, then status.Err(); both failures
\* return &BigQueryError{copyQuery, err} with the error of job.Wait.
QueryWait(outcome) ==
    /\ Running /\ pc = "queryWait"
    /\ Log("queryWait", outcome)
    /\ CASE outcome = "waitErr" ->
              /\ UNCHANGED <<queryJob, target>>
              /\ WorkerEndReturn(BigQueryError(CopyQuery(curT), NewError("wait " \o curT)))
         [] outcome = "statusErr" ->
              /\ queryJob' = [queryJob EXCEPT ![curT] = "failed"]
              /\ UNCHANGED target
              /\ WorkerEndReturn(BigQueryError(CopyQuery(curT), Nil))
         [] outcome = "ok" ->
              /\ queryJob' = [queryJob EXCEPT ![curT] = "done"]
              /\ target' = [target EXCEPT ![curT] = "new"]
              /\ WorkerEndGoto("deleteTemp")
    /\ UNCHANGED <<genVars, opsVars, kind, Tables, routerVars, rows, chClosed, loopPc, cur, avroWriter,
                   appended, inserted, writerClosed, temp, tempExpires, loadJob,
                   pending, mode, curT, ret, nextRow, exited, panicked>>

\* tt.Bq.deleteTable(tempTable), then return nil.
DeleteTemp(ok) ==
    /\ Running /\ pc = "deleteTemp"
    /\ LET apiErr == TableDelete(temp[curT] # "absent", ok)
           err == DeleteTableResult(apiErr) IN
       /\ Log("deleteTemp", IF err = Nil THEN "ok" ELSE "err")
       /\ temp' = IF apiErr = Nil THEN [temp EXCEPT ![curT] = "absent"] ELSE temp
       /\ IF err = Nil
          THEN WorkerEndReturn(Nil)
          ELSE WorkerEndReturn(Wrap(err, "deleting BigQuery table"))
    /\ UNCHANGED <<genVars, opsVars, kind, Tables, routerVars, rows, chClosed, loopPc, cur, avroWriter,
                   appended, inserted, writerClosed, target, tempExpires, loadJob,
                   queryJob, pending, mode, curT, ret, nextRow, exited, panicked>>

Next ==
    \/ \E bulk \in BOOLEAN : CallBegin(bulk)
    \/ \E t \in TableNames, o \in {"ok", "beginFail", "openFail"} : NewTxRouterIter(t, o)
    \/ NewTxRouterReturn
    \/ \E t \in TableNames \cup {UnknownTable} : CallInsert(t)
    \/ RouterInsert
    \/ \E t \in TableNames \cup {UnknownTable} : CallDelete(t)
    \/ RouterDelete
    \/ \E t \in TableNames : SinkDelete(t)
    \/ \E t \in TableNames : LoopRecv(t)
    \/ \E t \in TableNames, ok \in BOOLEAN : LoopAppend(t, ok)
    \/ \E t \in TableNames : LoopExit(t)
    \/ \E m \in {"End", "Abort"} : CallEnd(m)
    \/ \E t \in TableNames : RouterIter(t)
    \/ RouterReturn
    \/ EndClose
    \/ EndWait
    \/ \E ok \in BOOLEAN : EndCloseWriter(ok)
    \/ \E ok \in BOOLEAN : LoadRun(ok)
    \/ \E o \in {"ok", "waitErr", "statusErr"} : LoadWait(o)
    \/ \E ok \in BOOLEAN : SetExpiration(ok)
    \/ \E ok \in BOOLEAN : DeleteTarget(ok)
    \/ \E ok \in BOOLEAN : QueryRun(ok)
    \/ \E o \in {"ok", "waitErr", "statusErr"} : QueryWait(o)
    \/ \E ok \in BOOLEAN : DeleteTemp(ok)

Spec == Init /\ [][Next]_vars

\* a sink that writes files or objects, with one table, about to open a
\* transaction
InitLive ==
    /\ Init
    /\ kind \in {"avro", "gcs"}
    /\ Tables = {"roads"}

\* the steps of a transaction on a file or object-store sink
NextLive ==
    \/ \E bulk \in BOOLEAN : CallBegin(bulk)
    \/ \E t \in TableNames, o \in {"ok", "beginFail", "openFail"} : NewTxRouterIter(t, o)
    \/ NewTxRouterReturn
    \/ \E t \in TableNames \cup {UnknownTable} : CallInsert(t)
    \/ RouterInsert
    \/ \E t \in TableNames : LoopRecv(t)
    \/ \E t \in TableNames, ok \in BOOLEAN : LoopAppend(t, ok)
    \/ \E t \in TableNames : LoopExit(t)
    \/ \E m \in {"End", "Abort"} : CallEnd(m)
    \/ \E t \in TableNames : RouterIter(t)
    \/ RouterReturn
    \/ EndClose
    \/ EndWait
    \/ \E ok \in BOOLEAN : EndCloseWriter(ok)

\* the background loop of every worker is scheduled when it can take a
\* step and every append terminates; a caller inside End or Abort goes on
\* and every Close of the writer terminates
Fairness ==
    /\ \A t \in TableNames :
          /\ WF_vars(LoopRecv(t))
          /\ WF_vars(\E ok \in BOOLEAN : LoopAppend(t, ok))
          /\ WF_vars(LoopExit(t))
    /\ WF_vars(\/ \E t \in TableNames : RouterIter(t)
               \/ RouterReturn
               \/ EndClose
               \/ EndWait
               \/ \E ok \in BOOLEAN : EndCloseWriter(ok))

\* a transaction of a file or object-store sink under fair scheduling
SpecLive == InitLive /\ [][NextLive]_vars /\ Fairness

\* =============================================== generalized tables
\* (bigquery sink only: New, prepareGeneralizedTableSources,
\* prepareGeneralizations, Generalize)

\* errors.Errorf("missing source %q for generalized table %q", ...)
\* (fault variant: the error does not name the dependent table)
MissingSourceUnnamed(source, name) == <<"missing source for generalized table", source>>
MissingSourceError(source, name) ==
    <<"missing source for generalized table", source, name>>

\* First loop of prepareGeneralizedTableSources, one iteration: attach the
\* direct source of table g, a base table if the name is one, else a
\* generalized table; a name that is neither ends New with the wrapped error
\* and no sink.
ResolveDirect(g) ==
    /\ gpc = "pass1" /\ g \in gremaining
    /\ IF SourceName[g] \in TableNames
       THEN /\ Source' = [Source EXCEPT ![g] = SourceName[g]]
            /\ gremaining' = gremaining \ {g}
            /\ UNCHANGED <<SourceGeneralized, gpc, gret>>
       ELSE IF SourceName[g] \in GenNames
       THEN /\ SourceGeneralized' = [SourceGeneralized EXCEPT ![g] = SourceName[g]]
            /\ gremaining' = gremaining \ {g}
            /\ UNCHANGED <<Source, gpc, gret>>
       ELSE /\ gpc' = "failed"
            /\ gret' = [op |-> "New",
                        err |-> Wrap(MissingSourceError(SourceName[g], g),
                                     "preparing generalized table sources")]
            /\ UNCHANGED <<Source, SourceGeneralized, gremaining>>
    /\ UNCHANGED <<txVars, opsVars, SourceName, created, Generalizations, filled, progress,
                   builds, passNo>>

\* The first loop is over; enter the loop "for filled := true; filled;".
ResolveDirectDone ==
    /\ gpc = "pass1" /\ gremaining = {}
    /\ gpc' = "pass2"
    /\ filled' = FALSE
    /\ progress' = FALSE
    /\ gremaining' = GenNames
    /\ UNCHANGED <<txVars, opsVars, SourceName, Source, SourceGeneralized, created,
                   Generalizations, builds, passNo, gret>>

\* Second loop, one iteration of the inner range: a table without Source
\* takes the Source of its generalized source if that one has it, and sets
\* filled either way.
\* (fault variant: the table takes its direct generalized source's name)
PropagateDirect(g) ==
    /\ gpc = "pass2" /\ g \in gremaining
    /\ gremaining' = gremaining \ {g}
    /\ IF Source[g] = None
       THEN /\ filled' = TRUE
            /\ IF SourceName[g] \in GenNames /\ Source[SourceName[g]] # None
               THEN /\ Source' = [Source EXCEPT ![g] = SourceName[g]]
                    /\ progress' = TRUE
               ELSE UNCHANGED <<Source, progress>>
       ELSE UNCHANGED <<Source, filled, progress>>
    /\ UNCHANGED <<txVars, opsVars, SourceName, SourceGeneralized, created, Generalizations,
                   gpc, builds, passNo, gret>>
PropagateSource(g) ==
    /\ gpc = "pass2" /\ g \in gremaining
    /\ gremaining' = gremaining \ {g}
    /\ IF Source[g] = None
       THEN /\ filled' = TRUE
            /\ IF SourceName[g] \in GenNames /\ Source[SourceName[g]] # None
               THEN /\ Source' = [Source EXCEPT ![g] = Source[SourceName[g]]]
                    /\ progress' = TRUE
               ELSE UNCHANGED <<Source, progress>>
       ELSE UNCHANGED <<Source, filled, progress>>
    /\ UNCHANGED <<txVars, opsVars, SourceName, SourceGeneralized, created, Generalizations,
                   gpc, builds, passNo, gret>>

\* Second loop, end of one round: another round while filled is set, else
\* prepareGeneralizedTableSources returns nil and New goes on with
\* prepareGeneralizations.
PropagateRoundEnd ==
    /\ gpc = "pass2" /\ gremaining = {}
    /\ gremaining' = GenNames
    /\ progress' = FALSE
    /\ IF filled
       THEN /\ filled' = FALSE
            /\ UNCHANGED gpc
       ELSE /\ gpc' = "prepGen"
            /\ UNCHANGED filled
    /\ UNCHANGED <<txVars, opsVars, SourceName, Source, SourceGeneralized, created,
                   Generalizations, builds, passNo, gret>>

\* prepareGeneralizations, one iteration: append g to the Generalizations of
\* its base table and, if its source name is a generalized table, of that
\* table too.
\* (fault variant: only the base table gets the back-link)
PrepareBaseLinkOnly(g) ==
    /\ gpc = "prepGen" /\ g \in gremaining
    /\ gremaining' = gremaining \ {g}
    /\ Generalizations' = [Generalizations EXCEPT ![Source[g]] = Append(@, g)]
    /\ UNCHANGED <<txVars, opsVars, SourceName, Source, SourceGeneralized, created, gpc,
                   filled, progress, builds, passNo, gret>>
PrepareGeneralization(g) ==
    /\ gpc = "prepGen" /\ g \in gremaining
    /\ gremaining' = gremaining \ {g}
    /\ Generalizations' =
         [t \in TableNames \cup GenNames |->
            IF t = Source[g] \/ (SourceName[g] \in GenNames /\ t = SourceName[g])
            THEN Append(Generalizations[t], g)
            ELSE Generalizations[t]]
    /\ UNCHANGED <<txVars, opsVars, SourceName, Source, SourceGeneralized, created, gpc,
                   filled, progress, builds, passNo, gret>>

\* New returns the sink (db.Open is taken to succeed).
NewReturn ==
    /\ gpc = "prepGen" /\ gremaining = {}
    /\ gpc' = "ready"
    /\ gret' = [op |-> "New", err |-> Nil]
    /\ UNCHANGED <<txVars, opsVars, SourceName, Source, SourceGeneralized, created,
                   Generalizations, gremaining, filled, progress, builds, passNo>>

\* The caller invokes Generalize.
CallGeneralize ==
    /\ gpc = "ready" /\ passNo < MaxGeneralize
    /\ gpc' = "gen1"
    /\ passNo' = passNo + 1
    /\ builds' = <<>>
    /\ gremaining' = GenNames
    /\ gret' = NoRet
    /\ UNCHANGED <<txVars, opsVars, SourceName, Source, SourceGeneralized, created,
                   Generalizations, filled, progress>>

\* the CREATE OR REPLACE TABLE ... AS SELECT statement of generalizeTable
GeneralizeQuery(g) == "CREATE OR REPLACE TABLE " \o g

\* generalizeTable(g) was called from the given loop of Generalize: the
\* build query ran and was awaited; on success the table is marked created
\* and the loop goes on, on failure Generalize returns the BigQueryError.
BuildTable(g, ok) ==
    /\ builds' = Append(builds, <<g, IF ok THEN "ok" ELSE "err">>)
    /\ IF ok
       THEN /\ created' = [created EXCEPT ![g] = TRUE]
            /\ gremaining' = gremaining \ {g}
            /\ UNCHANGED <<gpc, gret>>
       ELSE /\ gpc' = "ready"
            /\ gret' = [op |-> "Generalize",
                        err |-> BigQueryError(GeneralizeQuery(g), NewError("job " \o g))]
            /\ UNCHANGED <<created, gremaining>>

\* the loop of Generalize passes over g without building it
SkipTable(g) ==
    /\ gremaining' = gremaining \ {g}
    /\ UNCHANGED <<builds, created, gpc, gret>>

\* First loop of Generalize, one iteration: build the tables whose source is
\* a base table.
GeneralizeFromBase(g, ok) ==
    /\ gpc = "gen1" /\ g \in gremaining
    /\ IF SourceGeneralized[g] = None
       THEN BuildTable(g, ok)
       ELSE ok /\ SkipTable(g)
    /\ UNCHANGED <<txVars, opsVars, SourceName, Source, SourceGeneralized, Generalizations,
                   filled, progress, passNo>>

\* The first loop is over; the second loop starts.
GeneralizeFromBaseDone ==
    /\ gpc = "gen1" /\ gremaining = {}
    /\ gpc' = "gen2"
    /\ gremaining' = GenNames
    /\ UNCHANGED <<txVars, opsVars, SourceName, Source, SourceGeneralized, created,
                   Generalizations, filled, progress, builds, passNo, gret>>

\* Second loop of Generalize, one iteration: build a table that is not
\* created yet and whose generalized source is created.
GeneralizeFromGeneralized(g, ok) ==
    /\ gpc = "gen2" /\ g \in gremaining
    /\ IF ~created[g] /\ created[SourceGeneralized[g]]
       THEN BuildTable(g, ok)
       ELSE ok /\ SkipTable(g)
    /\ UNCHANGED <<txVars, opsVars, SourceName, Source, SourceGeneralized, Generalizations,
                   filled, progress, passNo>>

\* The second loop is over: Generalize returns nil.
GeneralizeReturn ==
    /\ gpc = "gen2" /\ gremaining = {}
    /\ gpc' = "ready"
    /\ gret' = [op |-> "Generalize", err |-> Nil]
    /\ UNCHANGED <<txVars, opsVars, SourceName, Source, SourceGeneralized, created,
                   Generalizations, gremaining, filled, progress, builds, passNo>>

NextNew ==
    \/ \E g \in GenNames : ResolveDirect(g)
    \/ ResolveDirectDone
    \/ \E g \in GenNames : PropagateSource(g)
    \/ PropagateRoundEnd
    \/ \E g \in GenNames : PrepareGeneralization(g)
    \/ NewReturn
    \/ CallGeneralize
    \/ \E g \in GenNames, ok \in BOOLEAN : GeneralizeFromBase(g, ok)
    \/ GeneralizeFromBaseDone
    \/ \E g \in GenNames, ok \in BOOLEAN : GeneralizeFromGeneralized(g, ok)
    \/ GeneralizeReturn

\* the sink from New on: source resolution, back-links, Generalize calls
SpecNew == InitNew /\ [][NextNew]_vars

\* ---------------------------------------------------------------------
\* Tracking of changed ids and GeneralizeUpdates (bigquery sink)

\* the sink after New for the mapping gen1 from roads, gen2 from gen1, gen3
\* from places: sources resolved and back-links in place (the order of the
\* back-links of roads depends on the iteration order of New)
SinkReady ==
    /\ TxInit
    /\ kind = "bigquery" /\ Tables = TableNames
    /\ target = [t \in TableNames |-> "absent"]
    /\ SourceName = [g \in GenNames |->
                       IF g = "gen1" THEN "roads" ELSE IF g = "gen2" THEN "gen1" ELSE "places"]
    /\ Source = [g \in GenNames |-> IF g = "gen3" THEN "places" ELSE "roads"]
    /\ SourceGeneralized = [g \in GenNames |-> IF g = "gen2" THEN "gen1" ELSE None]
    /\ created = [g \in GenNames |-> FALSE]
    /\ \E links \in {<<"gen1", "gen2">>, <<"gen2", "gen1">>} :
          Generalizations = [t \in TableNames \cup GenNames |->
                               IF t = "roads" THEN links
                               ELSE IF t = "gen1" THEN <<"gen2">>
                               ELSE IF t = "places" THEN <<"gen3">>
                               ELSE <<>>]
    /\ gpc = "ready"
    /\ gremaining = {}
    /\ filled = FALSE
    /\ progress = FALSE
    /\ builds = <<>>
    /\ passNo = 0
    /\ gret = [op |-> "New", err |-> Nil]

\* the sink is ready and no transaction is open
InitUpdate == SinkReady /\ NoUpdates /\ NoRotation /\ WarehouseOff /\ NoRow /\ NoCalls

\* EnableGeneralizeUpdates: set the flag and make a fresh updatedIDs map.
EnableGeneralizeUpdates ==
    /\ Running /\ pc \in {"init", "idle"}
    /\ updateGeneralizedTables' = TRUE
    /\ updatedIDs' = [g \in GenNames |-> <<>>]
    /\ UNCHANGED <<txVars, genVars, rotVars, encVars, insVars, updateLog>>

\* generalizedFromMatches for one match: the back-links of the matched table
GeneralizedFromMatches(t) == Generalizations[t]

\* the map after the id was appended to the list of every table of genMatches
RECURSIVE TrackUpdates(_, _, _)
TrackUpdates(ids, genMatches, id) ==
    IF genMatches = <<>> THEN ids
    ELSE TrackUpdates([ids EXCEPT ![Head(genMatches)] = Append(@, id)],
                      Tail(genMatches), id)

\* InsertLineString / InsertPolygon for an element with one match, table t:
\* route the row to the worker of t (the send completes while the channel
\* has room), then, with generalize-updates enabled, record the element id
\* for every generalized table in the back-links of t.
InsertLineString(t, id) ==
    /\ Running /\ pc \in {"init", "idle"}
    /\ nextRow <= MaxUpdates
    /\ IF txRouter # "set"
       THEN /\ panicked' = "nil pointer dereference"
            /\ UNCHANGED <<rows, inserted, nextRow, ret, updatedIDs>>
       ELSE IF t \notin txrTables
       THEN /\ ret' = [op |-> "InsertLineString",
                       err |-> UnknownTableError("Insert into")]
            /\ UNCHANGED <<rows, inserted, nextRow, panicked, updatedIDs>>
       ELSE IF chClosed[t]
       THEN /\ panicked' = "send on closed channel"
            /\ UNCHANGED <<rows, inserted, nextRow, ret, updatedIDs>>
       ELSE /\ Len(rows[t]) < QueueCap
            /\ rows' = [rows EXCEPT ![t] = Append(@, id)]
            /\ inserted' = [inserted EXCEPT ![t] = Append(@, id)]
            /\ nextRow' = nextRow + 1
            /\ ret' = [op |-> "InsertLineString", err |-> Nil]
            /\ updatedIDs' = IF updateGeneralizedTables
                             THEN TrackUpdates(updatedIDs, GeneralizedFromMatches(t), id)
                             ELSE updatedIDs
            /\ UNCHANGED panicked
    /\ UNCHANGED <<genVars, rotVars, encVars, insVars, kind, Tables, routerVars, chClosed, loopPc, cur,
                   avroWriter, appended, writerClosed, endRet, steps, remoteVars,
                   pc, pending, mode, remaining, curT, endOrder, outErr, exited,
                   updateGeneralizedTables, updateLog>>

\* the orders sortedGeneralizedTables can return: a table is taken when its
\* Source is set or its generalized source has been taken
SortedGeneralizedTables ==
    {s \in [1..Cardinality(GenNames) -> GenNames] :
        /\ \A i, j \in DOMAIN s : s[i] = s[j] => i = j
        /\ \A i \in DOMAIN s :
              \/ Source[s[i]] # None
              \/ SourceGeneralized[s[i]] \in {s[j] : j \in 1..(i - 1)}}

\* what txRouter.Insert(table, ...) returns for a table that has no channel
\* to send on: the router looks the table up among its workers
RouterInsertError(table) ==
    IF table \notin txrTables THEN UnknownTableError("Insert into") ELSE Nil

\* the calls txRouter.Insert(table, {id}) of GeneralizeUpdates for the given
\* order of tables, each with the error the router returned
RECURSIVE RouterInserts(_)
RouterInserts(sorted) ==
    IF sorted = <<>> THEN <<>>
    ELSE [i \in 1..Len(updatedIDs[Head(sorted)]) |->
             <<Head(sorted), updatedIDs[Head(sorted)][i], RouterInsertError(Head(sorted))>>]
         \o RouterInserts(Tail(sorted))

\* GeneralizeUpdates: for every generalized table in sorted order and every
\* id tracked for it call txRouter.Insert(table, {id}), drop what it
\* returns, and return nil.  The keys of the router are the base tables, so
\* no call reaches a worker.
GeneralizeUpdates ==
    /\ Running /\ pc \in {"init", "idle"}
    /\ \E sorted \in SortedGeneralizedTables :
          IF RouterInserts(sorted) # <<>> /\ txRouter # "set"
          THEN /\ panicked' = "nil pointer dereference"
               /\ UNCHANGED <<updateLog, ret>>
          ELSE /\ updateLog' = RouterInserts(sorted)
               /\ ret' = [op |-> "GeneralizeUpdates", err |-> Nil]
               /\ UNCHANGED panicked
    /\ UNCHANGED <<genVars, rotVars, encVars, insVars, kind, Tables, routerVars, workerVars, remoteVars,
                   pc, pending, mode, remaining, curT, endOrder, outErr, nextRow,
                   exited, updateGeneralizedTables, updatedIDs>>

NextUpdate ==
    \/ EnableGeneralizeUpdates
    \/ \E bulk \in BOOLEAN : CallBegin(bulk)
    \/ \E t \in TableNames, outcome \in {"ok", "beginFail"} : NewTxRouterIter(t, outcome)
    \/ NewTxRouterReturn
    \/ \E t \in TableNames, id \in ElemIDs : InsertLineString(t, id)
    \/ \E t \in TableNames : LoopRecv(t)
    \/ \E t \in TableNames, ok \in BOOLEAN : LoopAppend(t, ok)
    \/ GeneralizeUpdates

\* one transaction of the bigquery sink with tracking of changed ids
SpecUpdate == InitUpdate /\ [][NextUpdate]_vars

\* ---------------------------------------------------------------------
\* Deploy, RevertDeploy (rotate) and RemoveBackup (bigquery sink)

\* the table whose presence in the datasets varies between initial states
\* and whose warehouse requests can fail; the requests on the other tables
\* succeed when they can
VariedNames == {"gen1"}

\* what the tables of a dataset hold before any rotation
InitialContent(d) ==
    IF d = ImportSchema THEN "new" ELSE IF d = ProductionSchema THEN "old" ELSE "older"

\* the sink is ready; the import dataset exists, the production and backup
\* datasets may not exist yet; a table is present with the content of its
\* dataset ("new" in import, "old" in production, "older" in backup) or
\* absent
InitDeploy ==
    /\ SinkReady /\ NoUpdates /\ NoRotation /\ NoRow /\ NoCalls
    /\ rpc = "idle"
    /\ datasets \in {DatasetNames, {ImportSchema, BackupSchema}, {ImportSchema}}
    /\ \E present \in [DatasetNames -> SUBSET VariedNames] :
          content = [d \in DatasetNames |-> [n \in TableNames \cup GenNames |->
                       IF d \in datasets /\ (n \notin VariedNames \/ n \in present[d])
                       THEN InitialContent(d)
                       ELSE Absent]]

\* names of all tables: tableNames() lists the base tables, then the
\* generalized tables, each group in map order
TableNamesAll == Tables \cup GenNames
\* n can be the next name of a loop over tableNames() that has left the
\* rest to visit
NextName(n, rest) == n \in rest /\ (n \in GenNames => rest \cap Tables = {})

\* the error of a Metadata call: nil, a 'Not found' error, or another error
Metadata(exists, ok) ==
    IF ~ok THEN NewError("backend") ELSE IF ~exists THEN NotFound ELSE Nil

\* datasetExists / tableExists applied to the error of the Metadata call:
\* the pair (bool, error) they return
Exists(metaErr) ==
    IF metaErr # Nil /\ metaErr # NotFound
    THEN <<FALSE, Wrap(metaErr, "checking if exists")>>
    ELSE <<TRUE, Nil>>

\* the operation returns err to its caller
RotReturn(err) ==
    /\ rret' = [op |-> rot.op, err |-> err]
    /\ rpc' = "idle"

\* Deploy / RevertDeploy call rotate(source, dest, backup).
CallRotate(op) ==
    /\ rpc = "idle" /\ ops < MaxOps
    /\ op \in {"Deploy", "RevertDeploy"}
    /\ rot' = [op |-> op,
               prev |-> IF rret.err = Nil THEN rot.op ELSE "failed",
               source |-> IF op = "Deploy" THEN ImportSchema ELSE BackupSchema,
               dest |-> ProductionSchema,
               backup |-> IF op = "Deploy" THEN BackupSchema ELSE ImportSchema]
    /\ deployed' = IF op = "Deploy" THEN content[ProductionSchema] ELSE deployed
    /\ rpc' = "ensureDest"
    /\ jobs' = <<>>
    /\ rret' = NoRet
    /\ ops' = ops + 1
    /\ UNCHANGED <<txVars, genVars, updVars, encVars, insVars, datasets, content, rremaining, rcur>>

\* createDatasetIfNotExists(ds) for the dest dataset, then for the backup
\* dataset: return nil when datasetExists says it exists, else create it.
CreateDatasetIfNotExists(metaOk, createOk) ==
    /\ rpc \in {"ensureDest", "ensureBackup"}
    /\ LET ds == IF rpc = "ensureDest" THEN rot.dest ELSE rot.backup
           ok == Exists(Metadata(ds \in datasets, metaOk))
           goOn == /\ rpc' = IF rpc = "ensureDest" THEN "ensureBackup" ELSE "tables"
                   /\ rremaining' = IF rpc = "ensureDest" THEN rremaining ELSE TableNamesAll
                   /\ UNCHANGED rret
       IN  IF ok[2] # Nil
           THEN /\ createOk
                /\ RotReturn(Wrap(ok[2], "creating BigQuery dataset"))
                /\ UNCHANGED <<datasets, rremaining>>
           ELSE IF ok[1]
           THEN /\ createOk
                /\ goOn
                /\ UNCHANGED datasets
           ELSE IF createOk
           THEN /\ datasets' = datasets \cup {ds}
                /\ goOn
           ELSE /\ RotReturn(Wrap(NewError("create"), "creating BigQuery dataset"))
                /\ UNCHANGED <<datasets, rremaining>>
    /\ UNCHANGED <<txVars, genVars, updVars, encVars, insVars, content, rot, rcur, jobs, ops, deployed>>

\* Head of one iteration of the loop of rotate: tableExists for the source
\* and the dest table; skip the table when the source does not exist, take
\* a snapshot first when the dest exists.
RotateTable(n, srcOk, dstOk) ==
    /\ rpc = "tables" /\ NextName(n, rremaining)
    /\ (srcOk /\ dstOk) \/ n \in VariedNames
    /\ jobs' = <<>>
    /\ LET sourceExists == Exists(Metadata(content[rot.source][n] # Absent, srcOk))
           destExists == Exists(Metadata(content[rot.dest][n] # Absent, dstOk))
       IN  IF sourceExists[2] # Nil
           THEN /\ dstOk
                /\ RotReturn(sourceExists[2])
                /\ UNCHANGED <<rremaining, rcur>>
           ELSE IF destExists[2] # Nil
           THEN /\ RotReturn(destExists[2])
                /\ UNCHANGED <<rremaining, rcur>>
           ELSE IF ~sourceExists[1]
           THEN /\ rremaining' = rremaining \ {n}
                /\ UNCHANGED <<rcur, rpc, rret>>
           ELSE /\ rcur' = n
                /\ rpc' = IF destExists[1] THEN "snapshot" ELSE "copy"
                /\ UNCHANGED <<rremaining, rret>>
    /\ UNCHANGED <<txVars, genVars, updVars, encVars, insVars, datasets, content, rot, ops, deployed>>

\* outcomes of a copy job: Run fails, Wait fails, the job completes with an
\* error status, the job completes; it can complete only when the table it
\* reads and the dataset it writes exist
JobOutcomes(from, to, n) ==
    LET canComplete == content[from][n] # Absent /\ to \in datasets
    IN  (IF n \in VariedNames \/ ~canComplete THEN {"run", "wait", "status"} ELSE {})
        \cup (IF canComplete THEN {"ok"} ELSE {})

\* The snapshot of the dest table into backup (CreateIfNeeded,
\* WriteTruncate): Run and Wait; only the errors of Run and Wait end the
\* rotation, the status Wait returns is dropped.
Snapshot(outcome) ==
    /\ rpc = "snapshot" /\ outcome \in JobOutcomes(rot.dest, rot.backup, rcur)
    /\ jobs' = Append(jobs, <<"snapshot", rcur, outcome>>)
    /\ IF outcome \in {"run", "wait"}
       THEN RotReturn(NewError(outcome)) /\ UNCHANGED content
       ELSE /\ rpc' = "copy"
            /\ content' = IF outcome = "ok"
                          THEN [content EXCEPT ![rot.backup][rcur] = content[rot.dest][rcur]]
                          ELSE content
            /\ UNCHANGED rret
    /\ UNCHANGED <<txVars, genVars, updVars, encVars, insVars, datasets, rot, rremaining, rcur, ops,
                   deployed>>

\* The copy of the source table over the dest table (CreateIfNeeded,
\* WriteTruncate): Run and Wait, the status dropped as above.
Copy(outcome) ==
    /\ rpc = "copy" /\ outcome \in JobOutcomes(rot.source, rot.dest, rcur)
    /\ jobs' = Append(jobs, <<"copy", rcur, outcome>>)
    /\ IF outcome \in {"run", "wait"}
       THEN RotReturn(NewError(outcome)) /\ UNCHANGED <<content, rremaining>>
       ELSE /\ rpc' = "tables"
            /\ rremaining' = rremaining \ {rcur}
            /\ content' = IF outcome = "ok"
                          THEN [content EXCEPT ![rot.dest][rcur] = content[rot.source][rcur]]
                          ELSE content
            /\ UNCHANGED rret
    /\ UNCHANGED <<txVars, genVars, updVars, encVars, insVars, datasets, rot, rcur, ops, deployed>>

\* The loop of rotate is over: return nil.
RotateReturn ==
    /\ rpc = "tables" /\ rremaining = {}
    /\ RotReturn(Nil)
    /\ UNCHANGED <<txVars, genVars, updVars, encVars, insVars, datasets, content, rot, rremaining, rcur,
                   jobs, ops, deployed>>

\* the dataset RemoveBackup deletes from
\* (fault variant: it deletes from the production dataset)
RemoveBackupFromProduction == ProductionSchema
RemoveBackupDataset == BackupSchema

\* RemoveBackup is called.
CallRemoveBackup ==
    /\ rpc = "idle" /\ ops < MaxOps
    /\ rot' = [op |-> "RemoveBackup",
               prev |-> IF rret.err = Nil THEN rot.op ELSE "failed",
               source |-> "", dest |-> "", backup |-> RemoveBackupDataset]
    /\ rpc' = "remove"
    /\ rremaining' = TableNamesAll
    /\ jobs' = <<>>
    /\ rret' = NoRet
    /\ ops' = ops + 1
    /\ UNCHANGED <<txVars, genVars, updVars, encVars, insVars, datasets, content, rcur, deployed>>

\* One iteration of the loop of RemoveBackup: deleteTable on the table of
\* that name in the backup dataset; its error ends the operation.
RemoveBackupTable(n, ok) ==
    /\ rpc = "remove" /\ NextName(n, rremaining)
    /\ ok \/ n \in VariedNames
    /\ LET apiErr == TableDelete(content[rot.backup][n] # Absent, ok)
           err == DeleteTableResult(apiErr)
       IN  /\ jobs' = <<<<"delete", n, apiErr>>>>
           /\ content' = IF apiErr = Nil
                         THEN [content EXCEPT ![rot.backup][n] = Absent]
                         ELSE content
           /\ IF err # Nil
              THEN RotReturn(err) /\ UNCHANGED rremaining
              ELSE /\ rremaining' = rremaining \ {n}
                   /\ UNCHANGED <<rpc, rret>>
    /\ UNCHANGED <<txVars, genVars, updVars, encVars, insVars, datasets, rot, rcur, ops, deployed>>

\* The loop of RemoveBackup is over: return nil.
RemoveBackupReturn ==
    /\ rpc = "remove" /\ rremaining = {}
    /\ RotReturn(Nil)
    /\ UNCHANGED <<txVars, genVars, updVars, encVars, insVars, datasets, content, rot, rremaining, rcur,
                   jobs, ops, deployed>>

NextDeploy ==
    \/ \E op \in {"Deploy", "RevertDeploy"} : CallRotate(op)
    \/ \E metaOk, createOk \in BOOLEAN : CreateDatasetIfNotExists(metaOk, createOk)
    \/ \E n \in TableNames \cup GenNames, srcOk, dstOk \in BOOLEAN : RotateTable(n, srcOk, dstOk)
    \/ \E outcome \in {"run", "wait", "status", "ok"} : Snapshot(outcome)
    \/ \E outcome \in {"run", "wait", "status", "ok"} : Copy(outcome)
    \/ RotateReturn
    \/ CallRemoveBackup
    \/ \E n \in TableNames \cup GenNames, ok \in BOOLEAN : RemoveBackupTable(n, ok)
    \/ RemoveBackupReturn

\* the datasets of the warehouse under Deploy, RevertDeploy and RemoveBackup
SpecDeploy == InitDeploy /\ [][NextDeploy]_vars

\* ---------------------------------------------------------------------
\* Row encoder of the background loops

\* the field type variants of the mapping
FieldVariants == {"scalar", "tags", "geometry", "validated_geometry"}
\* cells: nil, a string in hstore format, another string
CellValues == {None, "a=>b", "text"}

\* field.Type.AvroType() of a field of that variant (scalar: a string column)
AvroTypeOf(variant) == IF variant = "tags" THEN "record" ELSE "string"

\* the wire value for a nil cell
NullWire == [key |-> "null", val |-> None]
\* the encoder did not return: value.(string) on a value that is no string
ConversionPanic == [key |-> "panic", val |-> "interface conversion"]

\* hstore.Scan of a string and the list of key/value records made from its
\* map; a string that does not scan gives the empty list
ScanTags(value) ==
    IF value = "a=>b" THEN <<[key |-> "a", value |-> "b"]>> ELSE <<>>

\* (fault variant: a tags string that does not scan fails the encoder)
EncodeFieldAvroStrict(variant, value) ==
    IF variant = "tags"
    THEN IF value = None \/ ScanTags(value) = <<>> THEN ConversionPanic
         ELSE [key |-> "array", val |-> ScanTags(value)]
    ELSE IF value = None THEN NullWire
    ELSE [key |-> AvroTypeOf(variant), val |-> value]

\* encodeFieldAvroDB / encodeFieldAvro: a tags field is converted to a
\* string and scanned before the cell is compared with nil; every other
\* field gives {null: nil} for nil and {type: value} otherwise.
EncodeFieldAvro(variant, value) ==
    IF variant = "tags"
    THEN IF value = None THEN ConversionPanic
         ELSE [key |-> "array", val |-> ScanTags(value)]
    ELSE IF value = None THEN NullWire
    ELSE [key |-> AvroTypeOf(variant), val |-> value]

\* the loop of the bigquery worker: {null: nil} for nil and {type: value}
\* otherwise, for every field
EncodeFieldBigQuery(variant, value) ==
    [key |-> IF value # None THEN AvroTypeOf(variant) ELSE "null", val |-> value]

\* the encoder of the sink
EncodeField(variant, value) ==
    IF kind = "bigquery" THEN EncodeFieldBigQuery(variant, value)
    ELSE EncodeFieldAvro(variant, value)

\* a worker of one of the three sinks has received a row of one or two
\* cells, of any field type
InitEncode ==
    /\ TxInit
    /\ Tables = {"roads"}
    /\ target = [t \in TableNames |-> "absent"]
    /\ NewGeneralizedTableSpecs([g \in GenNames |-> UnknownTable])
    /\ gpc = "off"
    /\ NoUpdates /\ NoRotation /\ WarehouseOff /\ NoCalls
    /\ \E n \in 1..MaxFields : erow \in [1..n -> FieldVariants \X CellValues]
    /\ encodedValue = <<>>
    /\ edone = FALSE

\* One iteration of the loop over the cells of the row: encode the cell
\* with the field of the same index; a panic of the encoder ends the
\* process.
EncodeCell ==
    /\ Running /\ Len(encodedValue) < Len(erow)
    /\ LET cell == erow[Len(encodedValue) + 1]
           wire == EncodeField(cell[1], cell[2])
       IN  IF wire = ConversionPanic
           THEN /\ panicked' = "interface conversion"
                /\ UNCHANGED encodedValue
           ELSE /\ encodedValue' = Append(encodedValue, wire)
                /\ UNCHANGED panicked
    /\ UNCHANGED <<genVars, updVars, rotVars, insVars, kind, Tables, routerVars, workerVars,
                   remoteVars, callerVars, exited, erow, edone>>

\* The record of the encoded row is appended to the writer; a failing
\* Append is log.Fatalf.
AppendEncoded(ok) ==
    /\ Running /\ Len(encodedValue) = Len(erow) /\ ~edone
    /\ IF ok THEN edone' = TRUE /\ UNCHANGED exited
             ELSE exited' = TRUE /\ UNCHANGED edone
    /\ UNCHANGED <<genVars, updVars, rotVars, insVars, kind, Tables, routerVars, workerVars,
                   remoteVars, callerVars, panicked, erow, encodedValue>>

NextEncode ==
    \/ EncodeCell
    \/ \E ok \in BOOLEAN : AppendEncoded(ok)

\* the background loop of a worker encoding one row
SpecEncode == InitEncode /\ [][NextEncode]_vars

\* ---------------------------------------------------------------------
\* Concurrent sink inserts with several matches

\* the match lists of an element: one or two matches for different tables,
\* each table configured or not
MatchLists ==
    {<<t>> : t \in TableNames \cup {UnknownTable}} \cup
    {m \in (TableNames \cup {UnknownTable}) \X (TableNames \cup {UnknownTable}) :
        m[1] # m[2]}

\* generalizedFromMatches: the back-links of the matched tables, in the
\* order of the matches
RECURSIVE GeneralizedFromMatchList(_)
GeneralizedFromMatchList(matches) ==
    IF matches = <<>> THEN <<>>
    ELSE GeneralizedFromMatches(Head(matches)) \o GeneralizedFromMatchList(Tail(matches))

\* the sink inserts started so far
StartedCalls == Cardinality(callLog) + Cardinality({c \in Callers : calls[c].pc # "idle"})

\* the sink is ready, EnableGeneralizeUpdates has been called or not, and
\* no transaction is open
InitInsert ==
    /\ SinkReady /\ NoRotation /\ WarehouseOff /\ NoRow /\ NoCalls
    /\ updateGeneralizedTables \in BOOLEAN
    /\ updatedIDs = [g \in GenNames |-> <<>>]
    /\ updateLog = <<>>

\* the insert of goroutine c returns err
InsertReturns(c, err) ==
    /\ calls' = [calls EXCEPT ![c] = NoInsert]
    /\ callLog' = callLog \cup {[op |-> c, n |-> calls[c].n, id |-> calls[c].id,
                                 matches |-> calls[c].matches, err |-> err]}

\* Goroutine c enters InsertLineString / InsertPolygon with an element and
\* its matches, after Begin has returned.
CallInsertGeom(c, id, matches) ==
    /\ Running /\ calls[c].pc = "idle"
    /\ pc = "idle"
    /\ StartedCalls < MaxUpdates
    /\ calls' = [calls EXCEPT ![c] = [NoInsert EXCEPT !.pc = "route", !.n = StartedCalls + 1,
                                                      !.id = id, !.matches = matches, !.i = 1]]
    /\ UNCHANGED <<txVars, genVars, updVars, rotVars, encVars, updateIDsMu, callLog>>

\* One iteration of the loop over the matches: txRouter.Insert(table, row)
\* returns the unknown-table error, which the insert returns at once, or
\* sends the row on the channel of the worker (the send waits for room).
RouteMatch(c) ==
    /\ Running /\ calls[c].pc = "route" /\ calls[c].i <= Len(calls[c].matches)
    /\ LET t == calls[c].matches[calls[c].i]
       IN  IF txRouter # "set"
           THEN /\ panicked' = "nil pointer dereference"
                /\ UNCHANGED <<rows, inserted, calls, callLog>>
           ELSE IF t \notin txrTables
           THEN /\ InsertReturns(c, UnknownTableError("Insert into"))
                /\ UNCHANGED <<rows, inserted, panicked>>
           ELSE /\ Len(rows[t]) < QueueCap
                /\ rows' = [rows EXCEPT ![t] = Append(@, <<calls[c].n, calls[c].id>>)]
                /\ inserted' = [inserted EXCEPT ![t] = Append(@, <<calls[c].n, calls[c].id>>)]
                /\ calls' = [calls EXCEPT ![c].i = @ + 1]
                /\ UNCHANGED <<callLog, panicked>>
    /\ UNCHANGED <<genVars, updVars, rotVars, encVars, kind, Tables, routerVars, chClosed,
                   loopPc, cur, avroWriter, appended, writerClosed, endRet, steps,
                   remoteVars, callerVars, exited, updateIDsMu>>

\* After the loop: with generalize-updates enabled and a generalized table
\* among the back-links of the matches the goroutine goes for the mutex,
\* otherwise the insert returns nil.
RoutingDone(c) ==
    /\ Running /\ calls[c].pc = "route" /\ calls[c].i > Len(calls[c].matches)
    /\ LET genMatches == GeneralizedFromMatchList(calls[c].matches)
       IN  IF updateGeneralizedTables /\ Len(genMatches) > 0
           THEN /\ calls' = [calls EXCEPT ![c].pc = "lock", ![c].genMatches = genMatches,
                                          ![c].g = 1]
                /\ UNCHANGED callLog
           ELSE InsertReturns(c, Nil)
    /\ UNCHANGED <<txVars, genVars, updVars, rotVars, encVars, updateIDsMu>>

\* (fault variant: the goroutine does not wait for the mutex)
LockNoWait(c) ==
    /\ Running /\ calls[c].pc = "lock"
    /\ updateIDsMu' = c
    /\ calls' = [calls EXCEPT ![c].pc = "read"]
    /\ UNCHANGED <<txVars, genVars, updVars, rotVars, encVars, callLog>>

\* bq.updateIDsMu.Lock(): returns when no other goroutine holds the mutex.
Lock(c) ==
    /\ Running /\ calls[c].pc = "lock"
    /\ updateIDsMu = None
    /\ updateIDsMu' = c
    /\ calls' = [calls EXCEPT ![c].pc = "read"]
    /\ UNCHANGED <<txVars, genVars, updVars, rotVars, encVars, callLog>>

\* append(bq.updatedIDs[name], elem.ID), first half: read the list of the
\* generalized table the loop is at.
ReadIDs(c) ==
    /\ Running /\ calls[c].pc = "read"
    /\ calls' = [calls EXCEPT ![c].pc = "write",
                              ![c].tmp = updatedIDs[calls[c].genMatches[calls[c].g]]]
    /\ UNCHANGED <<txVars, genVars, updVars, rotVars, encVars, updateIDsMu, callLog>>

\* bq.updatedIDs[name] = append(...), second half: store the list that was
\* read with the id appended, and go on with the next generalized table.
WriteIDs(c) ==
    /\ Running /\ calls[c].pc = "write"
    /\ updatedIDs' = [updatedIDs EXCEPT ![calls[c].genMatches[calls[c].g]] =
                         Append(calls[c].tmp, calls[c].id)]
    /\ calls' = [calls EXCEPT ![c].g = @ + 1, ![c].tmp = <<>>,
                              ![c].pc = IF calls[c].g < Len(calls[c].genMatches)
                                        THEN "read" ELSE "unlock"]
    /\ UNCHANGED <<txVars, genVars, rotVars, encVars, updateGeneralizedTables, updateLog,
                   updateIDsMu, callLog>>

\* bq.updateIDsMu.Unlock() and return nil.
Unlock(c) ==
    /\ Running /\ calls[c].pc = "unlock"
    /\ updateIDsMu' = None
    /\ InsertReturns(c, Nil)
    /\ UNCHANGED <<txVars, genVars, updVars, rotVars, encVars>>

NextInsert ==
    \/ CallBegin(FALSE)
    \/ \E t \in TableNames, outcome \in {"ok", "beginFail"} : NewTxRouterIter(t, outcome)
    \/ NewTxRouterReturn
    \/ \E c \in Callers, id \in ElemIDs, matches \in MatchLists : CallInsertGeom(c, id, matches)
    \/ \E c \in Callers : RouteMatch(c)
    \/ \E c \in Callers : RoutingDone(c)
    \/ \E c \in Callers : Lock(c)
    \/ \E c \in Callers : ReadIDs(c)
    \/ \E c \in Callers : WriteIDs(c)
    \/ \E c \in Callers : Unlock(c)

\* two goroutines inserting line strings and polygons into one transaction
\* of the bigquery sink
SpecInsert == InitInsert /\ [][NextInsert]_vars

\* ================================================================ claims
\* set of the elements of a sequence
Range(seq) == {seq[i] : i \in 1..Len(seq)}

\* the caller's goroutine takes a step
CallerSteps == pc' # pc \/ panicked' # panicked

\* a fan-out of the given kind has returned to the caller
Returned(op) == pc = "idle" /\ ret.op = op

\* the End of worker t has returned in the last fan-out
EndReturned(t) == t \in Range(endOrder)

\* C1: after N Inserts into a worker followed by its End, exactly the N
\* inserted rows have been appended to the worker's sink, in insertion order,
\* the channel is drained and the loop has ended by the time the writer is
\* closed, and nothing is appended after the writer was closed.
C1_EndAppendsAllInOrder ==
    /\ [](\A t \in TableNames : writerClosed[t] > 0 =>
            /\ appended[t] = inserted[t]
            /\ rows[t] = <<>>
            /\ loopPc[t] = "done")
    /\ [][\A t \in TableNames : writerClosed[t] > 0 => appended'[t] = appended[t]]_vars

C1_Witness ==
    /\ Returned("End")
    /\ \E t \in TableNames :
         /\ Len(inserted[t]) >= 2
         /\ writerClosed[t] = 1
         /\ appended[t] = inserted[t]

\* C2: a rows channel never holds more than 64 rows; an Insert that finds
\* fewer than 64 rows queued returns without waiting; the caller is parked in
\* Insert only while the channel holds 64 rows, and the receive of one row by
\* the background loop resumes it.
C2_QueueBound ==
    /\ [](\A t \in TableNames : Len(rows[t]) <= 64)
    /\ [](pc = "blocked" => Len(rows[pending.table]) = 64)
    /\ [][(/\ pc = "Insert" /\ txRouter = "set" /\ pending.table \in txrTables
           /\ ~chClosed[pending.table]
           /\ Len(rows[pending.table]) < 64
           /\ CallerSteps)
          => (pc' = "idle" /\ ret' = [op |-> "Insert", err |-> Nil])]_vars
    /\ [][(pc = "blocked" /\ rows'[pending.table] # rows[pending.table])
          => (pc' = "idle" /\ ret' = [op |-> "Insert", err |-> Nil]
              /\ Len(rows'[pending.table]) = 64)]_vars

C2_Witness ==
    /\ pc = "blocked"
    /\ Len(rows[pending.table]) = 64

\* C3: a router Insert or Delete whose table name is not a key of txr.Tables
\* returns a non-nil error and changes no worker: no channel, sink, history
\* or remote table changes, and nothing panics.
C3_UnknownTableNoWrite ==
    [][(/\ pc \in {"Insert", "Delete"} /\ txRouter = "set"
        /\ pending.table \notin txrTables
        /\ CallerSteps)
       => (/\ pc' = "idle"
           /\ ret'.err # Nil
           /\ panicked' = ""
           /\ UNCHANGED <<workerVars, remoteVars>>)]_vars

C3_Witness ==
    /\ Returned("Insert")
    /\ ret.err = <<"Insert into unknown table">>
    /\ \E t \in TableNames : rows[t] # <<>>

\* C4: when the router's End returns, End has been called on every worker of
\* the transaction, also on those visited after a worker whose End returned
\* an error: every worker's channel is closed and drained, its loop has ended
\* and its writer has been closed.
C4_EndVisitsEveryWorker ==
    Returned("End") =>
        /\ Range(endOrder) = txrTables
        /\ \A t \in txrTables :
             /\ chClosed[t] /\ rows[t] = <<>> /\ loopPc[t] = "done"
             /\ writerClosed[t] >= 1

C4_Witness ==
    /\ Returned("End")
    /\ Len(endOrder) = 2
    /\ endRet[endOrder[1]] # Nil
    /\ writerClosed[endOrder[2]] = 1

\* the worker that failed last in the iteration order of the last fan-out
LastFailing ==
    LET failing == {i \in 1..Len(endOrder) : endRet[endOrder[i]] # Nil}
    IN  endOrder[CHOOSE i \in failing : \A j \in failing : j <= i]

\* C5: on every sink the router's End returns the error of the worker that
\* failed last in iteration order when some worker's End returned an error,
\* and nil only when every worker's End returned nil.
C5_EndReturnsLastError ==
    Returned("End") =>
        IF \E t \in txrTables : endRet[t] # Nil
        THEN ret.err # Nil /\ ret.err = endRet[LastFailing]
        ELSE ret.err = Nil

\* C6: in a transaction opened with BeginBulk, a router Delete for a known
\* table panics with "unable to delete in bulkImport mode": it does not
\* return, and it changes no channel, sink or history.
C6_BulkDeletePanics ==
    /\ [][(/\ pc = "Delete" /\ bulkImport /\ txRouter = "set"
           /\ pending.table \in txrTables
           /\ CallerSteps)
          => (/\ panicked' = "unable to delete in bulkImport mode"
              /\ pc' = "Delete"
              /\ UNCHANGED <<ret, workerVars, remoteVars>>)]_vars
    /\ []((bulkImport /\ ret.op = "Delete") => ret.err # Nil)

C6_Witness ==
    /\ bulkImport
    /\ panicked = "unable to delete in bulkImport mode"
    /\ \E t \in TableNames : inserted[t] # <<>>

\* C7: the bulk-mode contract violation is raised only in transactions
\* opened with BeginBulk; after Begin, Delete for a known table does not
\* raise it.
C7_DeleteDefinedOutsideBulk ==
    panicked = "unable to delete in bulkImport mode" => bulkImport

\* the caller is inside the Abort fan-out of the router
InAbort == mode = "Abort" /\ pc \notin {"init", "newTxRouter", "idle", "Insert", "Delete", "blocked"}

\* C8: while Abort runs on the warehouse sink no load job is started, no
\* target table is deleted and no materialize query is run.
C8_AbortSkipsBulkLoad ==
    [][(kind = "bigquery" /\ InAbort)
       => (loadJob' = loadJob /\ queryJob' = queryJob /\ target' = target)]_vars

\* the steps of the bulk-load sequence, in order
BulkLoadOrder ==
    <<"closeWriter", "loadRun", "loadWait", "setExpiration", "deleteTarget",
      "queryRun", "queryWait", "deleteTemp">>

\* C9: the End of a warehouse worker runs close staged writer, load run,
\* load wait, set expiration, delete target, materialize run, materialize
\* wait, delete temp in this order, each step only after the one before it
\* completed without error; the target table is deleted only after the load
\* job was started and awaited without error, and the materialize query is
\* started only when the load job is done.
C9_BulkLoadInOrder ==
    kind = "bigquery" =>
        \A t \in TableNames :
            /\ Len(steps[t]) <= Len(BulkLoadOrder)
            /\ \A i \in 1..Len(steps[t]) :
                 /\ steps[t][i][1] = BulkLoadOrder[i]
                 /\ i < Len(steps[t]) => steps[t][i][2] = "ok"
            /\ (\E i \in 1..Len(steps[t]) : steps[t][i][1] = "deleteTarget")
                 => (loadJob[t] = "done" /\ steps[t][3] = <<"loadWait", "ok">>)
            /\ queryJob[t] # "none" => loadJob[t] = "done"

C9_Witness ==
    /\ kind = "bigquery"
    /\ \E t \in TableNames :
         /\ Len(steps[t]) = 8
         /\ steps[t][8] = <<"deleteTemp", "ok">>
         /\ target[t] = "new"
         /\ inserted[t] # <<>>

\* C10: when the load job was awaited successfully and its status carries an
\* error, the worker's End returns a non-nil error.
C10_LoadStatusErrorSurfaced ==
    \A t \in TableNames :
        (/\ EndReturned(t)
         /\ steps[t] # <<>>
         /\ steps[t][Len(steps[t])] = <<"loadWait", "statusErr">>)
        => endRet[t] # Nil


\* the last step the End of worker t has run
LastStep(t) == steps[t][Len(steps[t])]

\* the End of worker t has returned after its materialize query failed
MaterializeFailed(t) ==
    /\ EndReturned(t)
    /\ steps[t] # <<>>
    /\ LastStep(t) \in {<<"queryRun", "err">>, <<"queryWait", "waitErr">>,
                        <<"queryWait", "statusErr">>}

\* C11: when the materialize query fails (not started, wait fails, or status
\* error), End returns a non-nil BigQueryError carrying the text of the
\* statement, the temp table is still there and the target table does not
\* exist.
C11_MaterializeFailureSurfaced ==
    \A t \in TableNames :
        MaterializeFailed(t) =>
            /\ endRet[t] # Nil
            /\ Len(endRet[t]) >= 2
            /\ endRet[t][1] = "BigQuery Error"
            /\ endRet[t][2] = CopyQuery(t)
            /\ temp[t] = "loaded"
            /\ target[t] = "absent"

C13_BeginFailureNoRouter ==
    /\ [](Returned("Begin") => (ret.err = Nil <=> txRouter = "set"))
    /\ [](txRouter = "set" => \A t \in Tables : avroWriter[t])
    /\ []((\E t \in TableNames : loopPc[t] # "none" /\ ~avroWriter[t])
            => (txRouter # "set" /\ pc # "newTxRouter"))
    /\ [](txRouter = "nil" =>
            \A t \in TableNames :
                inserted[t] = <<>> /\ rows[t] = <<>> /\ appended[t] = <<>>)
    /\ [][txRouter = "nil" => txRouter' = "nil" /\ loopPc' = loopPc]_vars

C13_Witness ==
    /\ txRouter = "nil"
    /\ Returned("Begin")
    /\ ret.err # Nil
    /\ \E t \in Tables : loopPc[t] = "recv" /\ avroWriter[t]
    /\ \E t \in Tables : loopPc[t] = "recv" /\ ~avroWriter[t]

\* C14: once an append has failed the process is gone: no record is appended
\* to any sink, no step of any End or bulk-load sequence runs, no remote
\* table or job changes, and End never returns.
C14_AppendFailureTerminates ==
    /\ [][exited => UNCHANGED <<appended, steps, remoteVars, writerClosed, ret, pc>>]_vars
    /\ [](exited => ~Returned("End"))

C14_Witness ==
    /\ exited
    /\ \E t \in TableNames : appended[t] # <<>> /\ rows[t] # <<>>
    /\ \E t \in TableNames : chClosed[t]


\* ---------------------------------------------------------------------
\* follow the configured source names from table n for at most k steps
RECURSIVE Follow(_, _)
Follow(n, k) == IF k = 0 \/ n \notin GenNames THEN n ELSE Follow(SourceName[n], k - 1)

\* the table at the root of the source chain of g (a base table when every
\* source exists and the configuration is acyclic)
Root(g) == Follow(g, Cardinality(GenNames))

\* source resolution has returned without error
Resolved == gpc \in {"prepGen", "ready", "gen1", "gen2"}

\* New has returned the sink
Constructed == gpc \in {"ready", "gen1", "gen2"}

\* number of occurrences of x in seq
Count(seq, x) == Cardinality({i \in 1..Len(seq) : seq[i] = x})

\* gen1 from roads, gen2 from gen1, gen3 from gen2
IsChain ==
    SourceName = [g \in GenNames |->
                    IF g = "gen1" THEN "roads" ELSE IF g = "gen2" THEN "gen1" ELSE "gen2"]

\* C15: when source resolution has ended, every generalized table has
\* Source = the base table at the root of its source chain, and
\* SourceGeneralized = its direct source if that is a generalized table,
\* nil if it is a base table, whatever the iteration order was.
C15_SourcesResolved ==
    Resolved =>
        \A g \in GenNames :
            /\ Root(g) \in TableNames
            /\ Source[g] = Root(g)
            /\ SourceGeneralized[g] =
                 IF SourceName[g] \in GenNames THEN SourceName[g] ELSE None

C15_Witness ==
    /\ gpc = "ready"
    /\ IsChain
    /\ Source["gen2"] = "roads"
    /\ Source["gen3"] = "roads"
    /\ SourceGeneralized["gen3"] = "gen2"

\* some generalized table names a source that is no table at all
MissingSource == \E g \in GenNames : SourceName[g] \notin TableNames \cup GenNames

\* C16: when a generalized table names a source that is neither a base nor a
\* generalized table, New never returns a sink, and the error it returns
\* names a missing source together with the generalized table that wants it.
C16_MissingSourceFails ==
    /\ MissingSource => ~Resolved /\ gpc # "pass2"
    /\ gpc = "failed" =>
         /\ gret.op = "New"
         /\ \E g \in GenNames :
              /\ SourceName[g] \notin TableNames \cup GenNames
              /\ gret.err = <<"preparing generalized table sources",
                              "missing source for generalized table",
                              SourceName[g], g>>

C16_Witness ==
    /\ gpc = "failed"
    /\ gret.err # Nil
    /\ gret.err[4] = "gen2"
    /\ Source["gen1"] # None

\* C17: a round of the second resolution pass that ends without having set
\* any Source while some table still has none ends the resolution with a
\* configuration error.
C17_NoProgressFails ==
    [][(/\ gpc = "pass2" /\ gremaining = {} /\ ~progress
        /\ \E g \in GenNames : Source[g] = None)
       => gpc' = "failed"]_vars

\* C18: once New has returned, every generalized table is listed exactly
\* once by its resolved base table and exactly once by its direct source if
\* that is a generalized table, and no table ever lists a generalized table
\* that does not consume it.
C18_BackLinks ==
    /\ Constructed =>
         \A g \in GenNames :
             /\ Count(Generalizations[Source[g]], g) = 1
             /\ SourceGeneralized[g] # None =>
                  Count(Generalizations[SourceGeneralized[g]], g) = 1
    /\ \A t \in TableNames \cup GenNames :
         \A i \in 1..Len(Generalizations[t]) :
             LET g == Generalizations[t][i]
             IN  t = Source[g] \/ t = SourceGeneralized[g]

C18_Witness ==
    /\ gpc = "ready"
    /\ SourceName["gen1"] = "roads" /\ SourceName["gen2"] = "gen1"
    /\ SourceName["gen3"] = "places"
    /\ Range(Generalizations["roads"]) = {"gen1", "gen2"}
    /\ Generalizations["gen1"] = <<"gen2">>
    /\ Generalizations["places"] = <<"gen3">>

\* C19: in every Generalize call, a table whose direct source is a
\* generalized table is built only after a build of that source has
\* succeeded in the same call.
C19_SourceBuiltFirst ==
    \A i \in 1..Len(builds) :
        LET src == SourceGeneralized[builds[i][1]]
        IN  src # None => \E j \in 1..(i - 1) : builds[j] = <<src, "ok">>

\* C20: when Generalize returns without error, every generalized table has
\* been built in that call and has created = TRUE.
C20_GeneralizeBuildsAll ==
    (gpc = "ready" /\ gret = [op |-> "Generalize", err |-> Nil]) =>
        \A g \in GenNames :
            /\ created[g]
            /\ <<g, "ok">> \in Range(builds)


\* C21: when GeneralizeUpdates has returned, for every id tracked for a
\* generalized table an insert for that table and id was issued and
\* accepted.
C21_UpdatesReinserted ==
    ret.op = "GeneralizeUpdates" =>
        \A g \in GenNames : \A i \in 1..Len(updatedIDs[g]) :
            <<g, updatedIDs[g][i], Nil>> \in Range(updateLog)

\* the last warehouse request made for the table the loop is at
LastJob == jobs[Len(jobs)]

\* C22: when rotate starts the copy of source over dest for a table that
\* exists in both, the snapshot of dest into backup has been started and
\* awaited, and if that snapshot did not complete successfully the copy
\* does not overwrite the dest table.
C22_SnapshotBeforeCopy ==
    [][(/\ rpc = "copy" /\ rpc' # "copy"
        /\ content[rot.source][rcur] # Absent
        /\ content[rot.dest][rcur] # Absent)
       => /\ Len(jobs) = 1
          /\ jobs[1][1] = "snapshot"
          /\ jobs[1][3] \in {"status", "ok"}
          /\ jobs[1][3] # "ok" => content'[rot.dest][rcur] = content[rot.dest][rcur]]_vars

\* C23: when RevertDeploy has returned nil right after a Deploy that
\* returned nil, every table that existed in production when Deploy was
\* called has the content it had then.
C23_RevertRestores ==
    (/\ rpc = "idle" /\ rot.op = "RevertDeploy" /\ rot.prev = "Deploy"
     /\ rret = [op |-> "RevertDeploy", err |-> Nil])
    => \A n \in TableNames \cup GenNames :
          deployed[n] # Absent => content[ProductionSchema][n] = deployed[n]

\* C24: rotate starts no snapshot and no copy job for a table that does not
\* exist in the source dataset.
C24_MissingSourceSkipped ==
    rpc \in {"snapshot", "copy"} => content[rot.source][rcur] # Absent

\* C25: a snapshot or copy job of rotate that cannot be started, cannot be
\* awaited or completes with an error status makes rotate return a non-nil
\* error at once, leaving the tables as they are.
C25_JobFailureAborts ==
    [][(/\ jobs' # jobs /\ jobs' # <<>>
        /\ jobs'[Len(jobs')][1] \in {"snapshot", "copy"}
        /\ jobs'[Len(jobs')][3] # "ok")
       => /\ rpc' = "idle"
          /\ rret'.err # Nil
          /\ content' = content]_vars

\* C27: rotate starts no snapshot job for a table that the dest dataset
\* does not contain.
C27_NoSnapshotWithoutDest ==
    rpc = "snapshot" => content[rot.dest][rcur] # Absent

\* C28: while rotate is at its tables, the dest and the backup dataset
\* exist.
C28_DatasetsEnsured ==
    rpc \in {"tables", "snapshot", "copy"} =>
        rot.dest \in datasets /\ rot.backup \in datasets

\* C29: RemoveBackup never changes the import and production datasets; a
\* deletion that returns nil or 'Not found' lets it go on, any other
\* deletion error ends it at once with that error; when it has returned nil
\* the backup dataset holds none of the known tables.
C29_RemoveBackupFrame ==
    /\ [][rot'.op = "RemoveBackup"
          => /\ datasets' = datasets
             /\ content'[ImportSchema] = content[ImportSchema]
             /\ content'[ProductionSchema] = content[ProductionSchema]]_vars
    /\ [][(jobs' # jobs /\ jobs' # <<>> /\ jobs'[1][1] = "delete")
          => IF jobs'[1][3] \in {Nil, NotFound}
             THEN rpc' = "remove" /\ rret' = NoRet
             ELSE /\ rpc' = "idle"
                  /\ rret' = [op |-> "RemoveBackup",
                              err |-> Wrap(jobs'[1][3], "deleting table")]
                  /\ content' = content]_vars
    /\ [](rret = [op |-> "RemoveBackup", err |-> Nil]
          => \A n \in TableNames \cup GenNames : content[BackupSchema][n] = Absent)

C29_Witness ==
    /\ rpc = "idle"
    /\ rret = [op |-> "RemoveBackup", err |-> Nil]
    /\ rot.prev = "none"
    /\ jobs = <<<<"delete", "gen1", NotFound>>>>
    /\ content[ProductionSchema]["roads"] = "old"
    /\ content[ImportSchema]["roads"] = "new"

\* C26: the encoder never panics, and every nil cell of the row is encoded
\* as the wire value {null: nil}, whatever the type of its field.
C26_NilCellIsNull ==
    /\ panicked = ""
    /\ \A i \in 1..Len(encodedValue) :
          erow[i][2] = None => encodedValue[i] = NullWire

\* C30: a step changes a created flag only inside Generalize, for one
\* table, from FALSE to TRUE, together with the successful build of that
\* table; a failing build makes Generalize return the error at once (so
\* that nothing more is built in that call) with created = FALSE for the
\* failing table.
C30_CreatedOnlyByBuild ==
    [][/\ created' # created =>
            /\ gpc \in {"gen1", "gen2"}
            /\ \E g \in GenNames :
                  /\ ~created[g]
                  /\ created' = [created EXCEPT ![g] = TRUE]
                  /\ builds' = Append(builds, <<g, "ok">>)
       /\ (builds' # builds /\ builds' # <<>> /\ builds'[Len(builds')][2] = "err") =>
            /\ gpc' = "ready"
            /\ gret'.op = "Generalize" /\ gret'.err # Nil
            /\ ~created'[builds'[Len(builds')][1]]
       /\ (gpc = "ready" /\ gpc' = "ready") => builds' = builds]_vars

\* C33: when the caller invokes Abort (or End) on the sink after a Begin
\* that returned an error, the call does not crash.
C33_AbortAfterFailedBegin ==
    [][(/\ pc = "idle" /\ ret.op = "Begin" /\ ret.err # Nil
        /\ ret' = NoRet /\ pc' \notin {"Insert", "Delete"})
       => panicked' = ""]_vars

\* C34: whatever End and Abort calls are made on a transaction, no row
\* channel is closed twice and no writer is closed more than once.
C34_FinalizeAtMostOnce ==
    /\ panicked # "close of closed channel"
    /\ \A t \in TableNames : writerClosed[t] <= 1

\* C35: whenever the background loop of a worker holds a row to append, or
\* has appended one, the writer of that worker has been created by a
\* successful Begin.
C35_AppendAfterBegin ==
    \A t \in TableNames :
        (loopPc[t] = "append" \/ appended[t] # <<>>) => avroWriter[t]

C35_Witness ==
    \E t \in TableNames :
        /\ loopPc[t] = "append"
        /\ appended[t] # <<>>
        /\ avroWriter[t]

\* C40: in a transaction opened with BeginBulk, a Delete through the sink
\* interface never returns nil, on any of the sinks.
C40_SinkDeleteRaises ==
    (bulkImport /\ txRouter = "set" /\ ret.op \in {"Delete", "SinkDelete"})
        => ret.err # Nil

\* the cell the encoder of the file or object-store worker handles next is
\* a tags cell whose string does not scan
UnparsableTagsNext ==
    /\ kind # "bigquery"
    /\ Len(encodedValue) < Len(erow)
    /\ erow[Len(encodedValue) + 1] = <<"tags", "text">>

\* C32: encoding a tags cell whose string does not scan adds the empty list
\* to the record and neither panics nor exits; a record that was appended
\* holds one value per cell of the row, the empty list for such a cell.
C32_UnparsableTagsEmpty ==
    /\ [][(UnparsableTagsNext /\ (encodedValue' # encodedValue \/ panicked' # panicked))
          => (/\ Len(encodedValue') = Len(encodedValue) + 1
              /\ encodedValue'[Len(encodedValue')].val = <<>>
              /\ panicked' = "" /\ exited' = exited)]_vars
    /\ []((kind # "bigquery" /\ edone) =>
            /\ Len(encodedValue) = Len(erow)
            /\ \A i \in 1..Len(erow) :
                  erow[i] = <<"tags", "text">> => encodedValue[i].val = <<>>)

C32_Witness ==
    /\ kind = "avro" /\ edone
    /\ Len(erow) = 2
    /\ erow[1] = <<"tags", "text">>
    /\ encodedValue[1].val = <<>>
    /\ encodedValue[2].val = "a=>b"

\* C38: every order sortedGeneralizedTables can return lists every
\* generalized table exactly once, and a table whose direct source is a
\* generalized table comes after that source.
C38_SortedInDependencyOrder ==
    \A s \in SortedGeneralizedTables :
        /\ Len(s) = Cardinality(GenNames) /\ Range(s) = GenNames
        /\ \A i \in 1..Len(s) :
              SourceGeneralized[s[i]] # None =>
                  \E j \in 1..(i - 1) : s[j] = SourceGeneralized[s[i]]

\* C39: when a second (or later) Generalize call on the same sink returns
\* without error, every generalized table has been built in that call.
C39_RerunBuildsAll ==
    (passNo >= 2 /\ gpc = "ready" /\ gret = [op |-> "Generalize", err |-> Nil]) =>
        \A g \in GenNames : <<g, "ok">> \in Range(builds)

\* the inserts that returned nil and whose matches have the generalized
\* table g among their back-links, for the element id
MatchingCalls(g, id) ==
    {k \in callLog : /\ k.err = Nil /\ k.id = id
                     /\ g \in Range(GeneralizedFromMatchList(k.matches))}

\* C31: with generalize-updates enabled, a goroutine reads or writes
\* updatedIDs only while it holds the mutex, and when every insert has
\* returned, updatedIDs holds for every generalized table and element id
\* one entry per insert that returned nil and matched a base table with
\* that generalized table among its back-links.
C31_NoLostAppend ==
    /\ \A c \in Callers : calls[c].pc \in {"read", "write", "unlock"} => updateIDsMu = c
    /\ (updateGeneralizedTables /\ \A c \in Callers : calls[c].pc = "idle") =>
          \A g \in GenNames, id \in ElemIDs :
              Count(updatedIDs[g], id) = Cardinality(MatchingCalls(g, id))

C31_Witness ==
    /\ updateGeneralizedTables
    /\ \A c \in Callers : calls[c].pc = "idle"
    /\ \E k1, k2 \in callLog :
          /\ k1.op = "InsertLineString" /\ k2.op = "InsertPolygon"
          /\ k1.err = Nil /\ k2.err = Nil
          /\ k1.id = 7 /\ k2.id = 7
          /\ k1.matches = <<"roads", "places">> /\ k2.matches = <<"roads">>
    /\ updatedIDs["gen1"] = <<7, 7>>
    /\ updatedIDs["gen3"] = <<7>>

\* C37: an insert that returned an error has left no row in the channel of
\* any worker.
C37_InsertAllOrNothing ==
    \A k \in callLog :
        k.err # Nil => \A t \in TableNames : <<k.n, k.id>> \notin Range(inserted[t])

\* the caller is inside the End fan-out of the router
InEnd == mode = "End" /\ pc \in {"router", "close", "wait", "closeWriter"}

\* C36: on a file or object-store sink under fair scheduling, an Insert
\* parked on the full channel returns, and an End that was called returns,
\* unless the process has ended; when End has returned the loop of every
\* worker has ended and its channel is empty.
C36_InsertAndEndReturn ==
    /\ (pc = "blocked") ~> (Returned("Insert") \/ ~Running)
    /\ InEnd ~> (Returned("End") \/ ~Running)
    /\ [](Returned("End") =>
            \A t \in txrTables : loopPc[t] = "done" /\ rows[t] = <<>>)

C36_Witness ==
    /\ Returned("End") /\ Running
    /\ Len(inserted["roads"]) > 64
    /\ appended["roads"] = inserted["roads"]
    /\ loopPc["roads"] = "done"

====
